---------------------------- MODULE Spec2Model ----------------------------
(***************************************************************************)
(* Wall-clock to instant resolution of the clock-app time converter.       *)
(*                                                                         *)
(* Instants and wall epochs are carried in whole minutes.  The source      *)
(* carries them in milliseconds, always as a multiple of 60_000: Date.UTC  *)
(* is called with seconds and milliseconds 0 and every candidate is        *)
(* baseUtc + delta * 60_000.  One model unit is therefore 60_000 ms.       *)
(***************************************************************************)
EXTENDS Integers, Sequences, FiniteSets, TLC

(***************************************************************************)
(* ECMAScript date arithmetic used by Date.UTC and the Date getters.       *)
(***************************************************************************)
MinutesPerDay == 1440

Null == [null |-> TRUE]

IsLeapYear(y) == (y % 4 = 0) /\ ((y % 100 # 0) \/ (y % 400 = 0))

DayFromYear(y) ==
    365 * (y - 1970) + ((y - 1969) \div 4) - ((y - 1901) \div 100) + ((y - 1601) \div 400)

\* days of a non-leap year before the first day of month m (1..12)
CumulativeDays == <<0, 31, 59, 90, 120, 151, 181, 212, 243, 273, 304, 334>>

LeapDay(y) == IF IsLeapYear(y) THEN 1 ELSE 0

DaysBeforeMonth(y, m) == CumulativeDays[m] + (IF m > 2 THEN LeapDay(y) ELSE 0)

\* MakeDay(year, monthIndex, date): a month index outside 0..11 is carried
\* into the year, a date outside the month runs on into the next months
MakeDay(year, monthIndex, date) ==
    LET ym == year + (monthIndex \div 12)
        mn == monthIndex % 12
    IN  DayFromYear(ym) + DaysBeforeMonth(ym, mn + 1) + date - 1

\* Date.UTC(year, monthIndex, day, hour, minute, 0, 0) in minutes; a year
\* 0..99 is read as 1900 + year
DateUTC(year, monthIndex, day, hour, minute) ==
    LET yr == IF year >= 0 /\ year <= 99 THEN 1900 + year ELSE year
    IN  MakeDay(yr, monthIndex, day) * MinutesPerDay + hour * 60 + minute

\* YearFromTime: the year y with DayFromYear(y) <= day < DayFromYear(y + 1);
\* 1970 + day div 365 is at most two years after it for a day from 1970 on
\* and at most two years before it for a day of the years 0 to 1969
YearFromDay(day) ==
    LET guess == 1970 + (day \div 365)
    IN  IF day >= 0
        THEN IF DayFromYear(guess) <= day THEN guess
             ELSE IF DayFromYear(guess - 1) <= day THEN guess - 1
             ELSE guess - 2
        ELSE IF day < DayFromYear(guess + 1) THEN guess
             ELSE IF day < DayFromYear(guess + 2) THEN guess + 1
             ELSE guess + 2

\* MonthFromTime (1..12) of a day within the year, leap the leap-day count
MonthFromDay(diy, leap) ==
    IF diy < 31 THEN 1
    ELSE IF diy < 59 + leap THEN 2
    ELSE IF diy < 90 + leap THEN 3
    ELSE IF diy < 120 + leap THEN 4
    ELSE IF diy < 151 + leap THEN 5
    ELSE IF diy < 181 + leap THEN 6
    ELSE IF diy < 212 + leap THEN 7
    ELSE IF diy < 243 + leap THEN 8
    ELSE IF diy < 273 + leap THEN 9
    ELSE IF diy < 304 + leap THEN 10
    ELSE IF diy < 334 + leap THEN 11
    ELSE 12

DateFromDay(y, day) ==
    LET diy == day - DayFromYear(y)
        m   == MonthFromDay(diy, LeapDay(y))
    IN  [month |-> m, day |-> diy - DaysBeforeMonth(y, m) + 1]

\* the UTC calendar fields of a time value (getUTCFullYear, getUTCMonth + 1,
\* getUTCDate, getUTCHours, getUTCMinutes)
UTCFields(t) ==
    LET day == t \div MinutesPerDay
        mod == t % MinutesPerDay
        y   == YearFromDay(day)
        md  == DateFromDay(y, day)
    IN  [year |-> y, month |-> md.month, day |-> md.day,
         hour |-> mod \div 60, minute |-> mod % 60]

(***************************************************************************)
(* Strings are sequences of one-character strings.                         *)
(***************************************************************************)
Digits == <<"0", "1", "2", "3", "4", "5", "6", "7", "8", "9">>

IsDigit(c) == \E i \in 1..10 : Digits[i] = c

DigitValue(c) == (CHOOSE i \in 1..10 : Digits[i] = c) - 1

\* Number(text) of a string of decimal digits
RECURSIVE Number(_)
Number(s) ==
    IF Len(s) = 0 THEN 0
    ELSE 10 * Number(SubSeq(s, 1, Len(s) - 1)) + DigitValue(s[Len(s)])

\* value.toString() of a non-negative integer
RECURSIVE NumberToString(_)
NumberToString(n) ==
    IF n < 10 THEN <<Digits[n + 1]>>
    ELSE Append(NumberToString(n \div 10), Digits[(n % 10) + 1])

pad2(value) ==
    LET s == NumberToString(value)
    IN  IF Len(s) < 2 THEN <<"0">> \o s ELSE s

(***************************************************************************)
(* Wall times.                                                             *)
(***************************************************************************)
\* the month handed to Date.UTC as it is written, 1..12, not as an index
wallToMinuteEpoch_monthNotIndexed(wall) ==
    DateUTC(wall.year, wall.month, wall.day, wall.hour, wall.minute)

wallToMinuteEpoch(wall) ==
    DateUTC(wall.year, wall.month - 1, wall.day, wall.hour, wall.minute)

partsToWall(parts) ==
    [year |-> parts.year, month |-> parts.month, day |-> parts.day,
     hour |-> parts.hour, minute |-> parts.minute]

\* the minute left out of the comparison
isSameWallMinute_sameHour(a, b) ==
    /\ a.year = b.year
    /\ a.month = b.month
    /\ a.day = b.day
    /\ a.hour = b.hour

isSameWallMinute(a, b) ==
    /\ a.year = b.year
    /\ a.month = b.month
    /\ a.day = b.day
    /\ a.hour = b.hour
    /\ a.minute = b.minute

\* /^(\d{4})-(\d{2})-(\d{2})$/
MatchesDatePattern(s) ==
    /\ Len(s) = 10
    /\ \A i \in {1, 2, 3, 4, 6, 7, 9, 10} : IsDigit(s[i])
    /\ s[5] = "-"
    /\ s[8] = "-"

\* /^(\d{2}):(\d{2})$/
MatchesTimePattern(s) ==
    /\ Len(s) = 5
    /\ \A i \in {1, 2, 4, 5} : IsDigit(s[i])
    /\ s[3] = ":"

\* the probe of lines 686-693 left out
parseWallTime_calendarUnchecked(dateValue, timeValue) ==
    IF ~MatchesDatePattern(dateValue) \/ ~MatchesTimePattern(timeValue) THEN Null
    ELSE
        LET year   == Number(SubSeq(dateValue, 1, 4))
            month  == Number(SubSeq(dateValue, 6, 7))
            day    == Number(SubSeq(dateValue, 9, 10))
            hour   == Number(SubSeq(timeValue, 1, 2))
            minute == Number(SubSeq(timeValue, 4, 5))
        IN  IF hour < 0 \/ hour > 23 \/ minute < 0 \/ minute > 59 THEN Null
            ELSE [year |-> year, month |-> month, day |-> day,
                  hour |-> hour, minute |-> minute]

parseWallTime(dateValue, timeValue) ==
    IF ~MatchesDatePattern(dateValue) \/ ~MatchesTimePattern(timeValue) THEN Null
    ELSE
        LET year   == Number(SubSeq(dateValue, 1, 4))
            month  == Number(SubSeq(dateValue, 6, 7))
            day    == Number(SubSeq(dateValue, 9, 10))
            hour   == Number(SubSeq(timeValue, 1, 2))
            minute == Number(SubSeq(timeValue, 4, 5))
            probe  == UTCFields(DateUTC(year, month - 1, day, 0, 0))
        IN  IF hour < 0 \/ hour > 23 \/ minute < 0 \/ minute > 59 THEN Null
            ELSE IF probe.year # year \/ probe.month - 1 # month - 1 \/ probe.day # day
                 THEN Null
            ELSE [year |-> year, month |-> month, day |-> day,
                  hour |-> hour, minute |-> minute]

formatDateInputValue(wall) ==
    NumberToString(wall.year) \o <<"-">> \o pad2(wall.month) \o <<"-">> \o pad2(wall.day)

formatTimeInputValue(wall) ==
    pad2(wall.hour) \o <<":">> \o pad2(wall.minute)

(***************************************************************************)
(* The platform's zone rules (Intl.DateTimeFormat with a timeZone option), *)
(* for the zones and the year the model's inputs lie in.                   *)
(***************************************************************************)
SupportedTimeZones ==
    {"UTC", "Europe/Helsinki", "Pacific/Kiritimati", "Pacific/Pago_Pago"}

\* a zone identifier the platform does not list
UnknownTimeZone == "Mars/Olympus_Mons"

\* 2024-03-31T01:00Z, 03:00 EET -> 04:00 EEST
HelsinkiDstStart == DateUTC(2024, 2, 31, 1, 0)

\* 2024-10-27T01:00Z, 04:00 EEST -> 03:00 EET
HelsinkiDstEnd == DateUTC(2024, 9, 27, 1, 0)

\* minutes east of UTC of the zone at the instant t
UtcOffsetAt(timeZone, t) ==
    CASE timeZone = "UTC" -> 0
      [] timeZone = "Pacific/Kiritimati" -> 840
      [] timeZone = "Pacific/Pago_Pago" -> -660
      [] timeZone = "Europe/Helsinki" ->
            IF t >= HelsinkiDstStart /\ t < HelsinkiDstEnd THEN 180 ELSE 120

(***************************************************************************)
(* Zoned-parts adapter.                                                    *)
(***************************************************************************)
\* new Intl.DateTimeFormat('en-CA', {timeZone, ...}): the formatter keeps the
\* zone it was built for
NewDateTimeFormat(timeZone) == [timeZone |-> timeZone]

\* formatter.formatToParts(date), the non-literal parts read with Number()
FormatToParts(formatter, date) ==
    LET local == UTCFields(date + UtcOffsetAt(formatter.timeZone, date))
    IN  [year |-> local.year, month |-> local.month, day |-> local.day,
         hour |-> local.hour, minute |-> local.minute, second |-> 0]

\* any cached formatter handed out, whatever zone it was built for
getZonedPartsFormatter_anyCached(cache, timeZone) ==
    IF DOMAIN cache # {}
    THEN cache[CHOOSE cached \in DOMAIN cache : TRUE]
    ELSE NewDateTimeFormat(timeZone)

\* cache is zonedPartsFormatterCache, a function from zone identifiers to
\* formatters
getZonedPartsFormatter(cache, timeZone) ==
    IF timeZone \in DOMAIN cache THEN cache[timeZone] ELSE NewDateTimeFormat(timeZone)

\* the map emptied before the new formatter is stored
CacheAfterGet_onlyLatest(cache, timeZone) ==
    IF timeZone \in DOMAIN cache THEN cache
    ELSE (timeZone :> NewDateTimeFormat(timeZone))

\* zonedPartsFormatterCache after getZonedPartsFormatter(timeZone)
CacheAfterGet(cache, timeZone) ==
    IF timeZone \in DOMAIN cache THEN cache
    ELSE cache @@ (timeZone :> NewDateTimeFormat(timeZone))

getZonedDateTimeParts(cache, date, timeZone) ==
    FormatToParts(getZonedPartsFormatter(cache, timeZone), date)

(***************************************************************************)
(* Wall-clock resolver.                                                    *)
(***************************************************************************)
\* a window of six hours each way
searchWindowMinutes_sixHours == 6 * 60

searchWindowMinutes == 36 * 60

\* line 823: the candidate's wall time is later than the requested one
IsAfterRequested(candidateWallEpoch, requestedEpoch) ==
    candidateWallEpoch > requestedEpoch

\* the comparison of the wall epochs turned round: the latest wall time wins
ReplacesNextAfter_latestWall(nextAfter, candidateWallEpoch, candidateMs) ==
    \/ nextAfter = Null
    \/ candidateWallEpoch > nextAfter.wallEpoch
    \/ (candidateWallEpoch = nextAfter.wallEpoch /\ candidateMs < nextAfter.instantMs)

\* lines 825-827
ReplacesNextAfter(nextAfter, candidateWallEpoch, candidateMs) ==
    \/ nextAfter = Null
    \/ candidateWallEpoch < nextAfter.wallEpoch
    \/ (candidateWallEpoch = nextAfter.wallEpoch /\ candidateMs < nextAfter.instantMs)

\* lines 839-841
ReplacesNearest(nearest, wallDiff, candidateMs) ==
    \/ nearest = Null
    \/ wallDiff < nearest.wallDiff
    \/ (wallDiff = nearest.wallDiff /\ candidateMs < nearest.instantMs)

Abs(n) == IF n < 0 THEN -n ELSE n

\* the locals of resolveSourceInstant before the loop; projected, firstMs,
\* lastMs and stepOneMinute follow the loop itself: how many candidates it has
\* projected, the first and the latest of them, and whether each candidate
\* was one minute after the one before it
ScanStart ==
    [exactMatches |-> <<>>, nextAfter |-> Null, nearest |-> Null,
     projected |-> 0, firstMs |-> Null, lastMs |-> Null, stepOneMinute |-> TRUE]

\* lines 815-848 of one iteration: the candidate candidateMs, its wall time
\* candidateWall (the one projection of line 816) and the epoch of that wall
\* time set against the request
Classify(requestedWall, requestedEpoch, candidateMs, candidateWall, candidateWallEpoch, acc) ==
    [exactMatches |->
        IF isSameWallMinute(candidateWall, requestedWall)
        THEN Append(acc.exactMatches, candidateMs)
        ELSE acc.exactMatches,
     nextAfter |->
        IF /\ IsAfterRequested(candidateWallEpoch, requestedEpoch)
           /\ ReplacesNextAfter(acc.nextAfter, candidateWallEpoch, candidateMs)
        THEN [instantMs |-> candidateMs, wallEpoch |-> candidateWallEpoch,
              wall |-> candidateWall]
        ELSE acc.nextAfter,
     nearest |->
        IF ReplacesNearest(acc.nearest, Abs(candidateWallEpoch - requestedEpoch),
                           candidateMs)
        THEN [instantMs |-> candidateMs,
              wallDiff |-> Abs(candidateWallEpoch - requestedEpoch),
              wall |-> candidateWall]
        ELSE acc.nearest,
     projected |-> acc.projected + 1,
     firstMs |-> IF acc.projected = 0 THEN candidateMs ELSE acc.firstMs,
     lastMs |-> candidateMs,
     stepOneMinute |->
        acc.stepOneMinute /\ (acc.projected = 0 \/ candidateMs = acc.lastMs + 1)]

\* one iteration of the loop (lines 815-848); formatter is the formatter
\* getZonedPartsFormatter hands out for the zone
ScanStep(formatter, requestedWall, delta, acc) ==
    LET candidateMs   == wallToMinuteEpoch(requestedWall) + delta
        candidateWall == partsToWall(FormatToParts(formatter, candidateMs))
    IN  Classify(requestedWall, wallToMinuteEpoch(requestedWall), candidateMs,
                 candidateWall, wallToMinuteEpoch(candidateWall), acc)

\* the whole loop of line 814: the iterations delta = lo .. hi in ascending
\* order, started from acc; the first half of a range is evaluated before the
\* second half starts
ScanWindow(formatter, requestedWall) ==
    LET RECURSIVE ScanRange(_, _, _)
        ScanRange(lo, hi, acc) ==
            IF lo = hi THEN ScanStep(formatter, requestedWall, lo, acc)
            ELSE LET mid   == (lo + hi) \div 2
                     first == ScanRange(lo, mid, acc)
                 IN  IF Len(first.exactMatches) >= 0
                     THEN ScanRange(mid + 1, hi, first)
                     ELSE acc
    IN  ScanRange(-searchWindowMinutes, searchWindowMinutes, ScanStart)

(***************************************************************************)
(* The inputs of the model: the dates and times a user enters.             *)
(***************************************************************************)
Chars(text) ==
    CASE text = "2024-03-31" -> <<"2", "0", "2", "4", "-", "0", "3", "-", "3", "1">>
      [] text = "2024-10-27" -> <<"2", "0", "2", "4", "-", "1", "0", "-", "2", "7">>
      [] text = "2024-02-30" -> <<"2", "0", "2", "4", "-", "0", "2", "-", "3", "0">>
      [] text = "0500-03-31" -> <<"0", "5", "0", "0", "-", "0", "3", "-", "3", "1">>
      [] text = "02:59" -> <<"0", "2", ":", "5", "9">>
      [] text = "03:00" -> <<"0", "3", ":", "0", "0">>
      [] text = "03:30" -> <<"0", "3", ":", "3", "0">>
      [] text = "04:00" -> <<"0", "4", ":", "0", "0">>
      [] text = "25:99" -> <<"2", "5", ":", "9", "9">>
      [] text = "3:30 AM" -> <<"3", ":", "3", "0", " ", "A", "M">>
      [] text = "UTC" ->
            <<"U", "T", "C">>
      [] text = "Europe/Helsinki" ->
            <<"E", "u", "r", "o", "p", "e", "/", "H", "e", "l", "s", "i", "n", "k", "i">>
      [] text = "Pacific/Kiritimati" ->
            <<"P", "a", "c", "i", "f", "i", "c", "/", "K", "i", "r", "i", "t", "i", "m", "a", "t", "i">>
      [] text = "Pacific/Pago_Pago" ->
            <<"P", "a", "c", "i", "f", "i", "c", "/", "P", "a", "g", "o", "_", "P", "a", "g", "o">>
      [] text = "Helsinki, Finland" ->
            <<"H", "e", "l", "s", "i", "n", "k", "i", ",", " ", "F", "i", "n", "l", "a", "n", "d">>
      [] text = "Kiritimati" ->
            <<"K", "i", "r", "i", "t", "i", "m", "a", "t", "i">>
      [] text = "Pago Pago" ->
            <<"P", "a", "g", "o", " ", "P", "a", "g", "o">>
      [] text = "utc" ->
            <<"u", "t", "c">>
      [] text = " Helsinki " ->
            <<" ", "H", "e", "l", "s", "i", "n", "k", "i", " ">>
      [] text = "pacific/k" ->
            <<"p", "a", "c", "i", "f", "i", "c", "/", "k">>
      [] text = "pac" ->
            <<"p", "a", "c">>
      [] text = "Mars/Olympus_Mons" ->
            <<"M", "a", "r", "s", "/", "O", "l", "y", "m", "p", "u", "s", "_", "M", "o", "n", "s">>
      [] text = "" -> <<>>

DateValues == {Chars("2024-03-31"), Chars("2024-10-27")}

TimeValues == {Chars("02:59"), Chars("03:00"), Chars("03:30"), Chars("04:00")}

ModelWalls == {parseWallTime(d, t) : d \in DateValues, t \in TimeValues}

\* the loop of resolveSourceInstant over the model's inputs, evaluated once
ScanTable ==
    [timeZone \in SupportedTimeZones, wall \in ModelWalls |->
        ScanWindow(NewDateTimeFormat(timeZone), wall)]

\* a date of the year 500, which the date field takes as any other; the
\* model uses it in UTC only, the one zone whose offset in that year is the
\* same on every platform
EarlyDate == Chars("0500-03-31")

EarlyWalls == {parseWallTime(EarlyDate, t) : t \in TimeValues}

\* the loop over the walls of that date in UTC, evaluated once
EarlyScanTable ==
    [wall \in EarlyWalls |-> ScanWindow(NewDateTimeFormat("UTC"), wall)]

ScanOf(formatter, requestedWall) ==
    IF formatter.timeZone \in SupportedTimeZones /\ requestedWall \in ModelWalls
    THEN ScanTable[formatter.timeZone, requestedWall]
    ELSE IF formatter.timeZone = "UTC" /\ requestedWall \in EarlyWalls
    THEN EarlyScanTable[requestedWall]
    ELSE ScanWindow(formatter, requestedWall)

\* the last match taken instead of the smallest
MathMin_lastValue(values) == values[Len(values)]

\* Math.min(...values)
MathMin(values) ==
    CHOOSE m \in {values[i] : i \in 1..Len(values)} :
        \A i \in 1..Len(values) : m <= values[i]

\* the return statement resolveSourceInstant leaves by (lines 851-885)
ResolveBranch(scan) ==
    IF Len(scan.exactMatches) = 1 THEN "exact"
    ELSE IF Len(scan.exactMatches) > 1 THEN "ambiguous"
    ELSE IF scan.nextAfter # Null THEN "nextAfter"
    ELSE IF scan.nearest # Null THEN "nearest"
    ELSE "baseline"

\* the nextAfter return carrying the instant of nearest, the wall time of
\* nextAfter
ResultOf_nearestInstant(scan, requestedWall) ==
    CASE ResolveBranch(scan) = "exact" ->
            [instant |-> scan.exactMatches[1], status |-> "normal",
             adjustedWall |-> Null]
      [] ResolveBranch(scan) = "ambiguous" ->
            [instant |-> MathMin(scan.exactMatches), status |-> "ambiguous",
             adjustedWall |-> Null]
      [] ResolveBranch(scan) = "nextAfter" ->
            [instant |-> scan.nearest.instantMs, status |-> "invalid-adjusted",
             adjustedWall |-> scan.nextAfter.wall]
      [] ResolveBranch(scan) = "nearest" ->
            [instant |-> scan.nearest.instantMs, status |-> "invalid-adjusted",
             adjustedWall |-> scan.nearest.wall]
      [] ResolveBranch(scan) = "baseline" ->
            [instant |-> wallToMinuteEpoch(requestedWall),
             status |-> "invalid-adjusted", adjustedWall |-> Null]

\* the value returned after the loop (lines 851-884); an absent adjustedWall
\* is Null
ResultOf(scan, requestedWall) ==
    CASE ResolveBranch(scan) = "exact" ->
            [instant |-> scan.exactMatches[1], status |-> "normal",
             adjustedWall |-> Null]
      [] ResolveBranch(scan) = "ambiguous" ->
            [instant |-> MathMin(scan.exactMatches), status |-> "ambiguous",
             adjustedWall |-> Null]
      [] ResolveBranch(scan) = "nextAfter" ->
            [instant |-> scan.nextAfter.instantMs, status |-> "invalid-adjusted",
             adjustedWall |-> scan.nextAfter.wall]
      [] ResolveBranch(scan) = "nearest" ->
            [instant |-> scan.nearest.instantMs, status |-> "invalid-adjusted",
             adjustedWall |-> scan.nearest.wall]
      [] ResolveBranch(scan) = "baseline" ->
            [instant |-> wallToMinuteEpoch(requestedWall),
             status |-> "invalid-adjusted", adjustedWall |-> Null]

resolveSourceInstant(cache, timeZone, requestedWall) ==
    ResultOf(ScanOf(getZonedPartsFormatter(cache, timeZone), requestedWall),
             requestedWall)

\* what a call of resolveSourceInstant did: its arguments, whether the cache
\* held a formatter for the zone, the candidates its loop went through, the
\* return statement it left by and the value it returned
CallOf(scan, cache, timeZone, requestedWall) ==
    [timeZone |-> timeZone,
     requestedWall |-> requestedWall,
     cached |-> timeZone \in DOMAIN cache,
     loop |-> [projected |-> scan.projected, firstMs |-> scan.firstMs,
               lastMs |-> scan.lastMs, stepOneMinute |-> scan.stepOneMinute],
     branch |-> ResolveBranch(scan),
     result |-> ResultOf(scan, requestedWall)]

ResolveCall(cache, timeZone, requestedWall) ==
    CallOf(ScanOf(getZonedPartsFormatter(cache, timeZone), requestedWall),
           cache, timeZone, requestedWall)

(***************************************************************************)
(* Conversion view builder.  Texts are sequences of string pieces.         *)
(***************************************************************************)
\* formatTimeZoneLabel for the zones of the model
ZoneLabel(timeZone) ==
    CASE timeZone = "UTC" -> "UTC"
      [] timeZone = "Europe/Helsinki" -> "Helsinki, Finland"
      [] timeZone = "Pacific/Kiritimati" -> "Kiritimati"
      [] timeZone = "Pacific/Pago_Pago" -> "Pago Pago"

\* 'UTC' not added to the zones the platform lists (line 172 left out)
findTimeZoneOptionByTimeZone_utcNotAdded(timeZone) ==
    IF timeZone \in SupportedTimeZones \ {"UTC"}
    THEN [timeZone |-> timeZone, label |-> ZoneLabel(timeZone)]
    ELSE Null

findTimeZoneOptionByTimeZone(timeZone) ==
    IF timeZone \in SupportedTimeZones
    THEN [timeZone |-> timeZone, label |-> ZoneLabel(timeZone)]
    ELSE Null

\* the time written before the date
formatWallForHint_timeFirst(wall) ==
    formatTimeInputValue(wall) \o <<" ">> \o formatDateInputValue(wall)

formatWallForHint(wall) ==
    formatDateInputValue(wall) \o <<" ">> \o formatTimeInputValue(wall)

\* no sentence for an ambiguous result
buildDstHint_ambiguousSilent(result, sourceLabel) ==
    IF result.status = "invalid-adjusted"
    THEN IF result.adjustedWall # Null
         THEN <<"The selected time in ", sourceLabel,
                " does not exist due to daylight saving time. Used the next valid local time (">>
              \o formatWallForHint(result.adjustedWall) \o <<").">>
         ELSE <<"The selected time in ", sourceLabel,
                " does not exist due to daylight saving time.">>
    ELSE <<>>

buildDstHint(result, sourceLabel) ==
    IF result.status = "ambiguous"
    THEN <<"The selected time in ", sourceLabel,
           " occurs twice due to daylight saving time. Used the earlier occurrence.">>
    ELSE IF result.status = "invalid-adjusted"
    THEN IF result.adjustedWall # Null
         THEN <<"The selected time in ", sourceLabel,
                " does not exist due to daylight saving time. Used the next valid local time (">>
              \o formatWallForHint(result.adjustedWall) \o <<").">>
         ELSE <<"The selected time in ", sourceLabel,
                " does not exist due to daylight saving time.">>
    ELSE <<>>

\* zonedPartsFormatterCache after computeConverterViewData(state, ...)
CacheAfterCompute(cache, state) ==
    IF \/ findTimeZoneOptionByTimeZone(state.sourceTimeZone) = Null
       \/ findTimeZoneOptionByTimeZone(state.targetTimeZone) = Null
       \/ parseWallTime(state.date, state.time) = Null
    THEN cache
    ELSE CacheAfterGet(CacheAfterGet(cache, state.sourceTimeZone), state.targetTimeZone)

\* the operands of the subtraction exchanged
DiffMinutes_sourceMinusTarget(sourceWall, targetWall) ==
    wallToMinuteEpoch(sourceWall) - wallToMinuteEpoch(targetWall)

\* the size of the difference, its sign dropped
DiffMinutes_absolute(sourceWall, targetWall) ==
    Abs(wallToMinuteEpoch(targetWall) - wallToMinuteEpoch(sourceWall))

\* line 135
DiffMinutes(sourceWall, targetWall) ==
    wallToMinuteEpoch(targetWall) - wallToMinuteEpoch(sourceWall)

\* the state handed back as it came in
NextState_unchanged(state, sourceWall) == state

\* nextState (lines 120-124): the state with the date and time of sourceWall
NextState(state, sourceWall) ==
    [state EXCEPT !.date = formatDateInputValue(sourceWall),
                  !.time = formatTimeInputValue(sourceWall)]

\* the minutes written without pad2
formatHourMinuteDifference_unpadded(diffMinutes) ==
    NumberToString(Abs(diffMinutes) \div 60) \o <<":">>
        \o NumberToString(Abs(diffMinutes) % 60) \o <<" hours">>

\* Math.abs, Math.floor(absoluteMinutes / 60) and absoluteMinutes % 60
formatHourMinuteDifference(diffMinutes) ==
    NumberToString(Abs(diffMinutes) \div 60) \o <<":">>
        \o pad2(Abs(diffMinutes) % 60) \o <<" hours">>

\* relativeBase (lines 137, 142)
RelativeText(sourceLabel, targetLabel, diffMinutes) ==
    IF diffMinutes = 0
    THEN <<targetLabel, " and ", sourceLabel, " currently ">>
    ELSE <<targetLabel, " time is ">>

\* zero read as a positive difference
RelativeEmphasis_zeroIsAhead(diffMinutes) ==
    IF diffMinutes >= 0
    THEN formatHourMinuteDifference(diffMinutes) \o <<" ahead">>
    ELSE formatHourMinuteDifference(diffMinutes) \o <<" behind">>

\* relativeEmphasis (lines 138, 143, 146-147)
RelativeEmphasis(diffMinutes) ==
    IF diffMinutes = 0 THEN <<"share the same local time">>
    ELSE IF diffMinutes > 0
    THEN formatHourMinuteDifference(diffMinutes) \o <<" ahead">>
    ELSE formatHourMinuteDifference(diffMinutes) \o <<" behind">>

\* relativeTail (lines 139, 144)
RelativeTail(sourceLabel, diffMinutes) ==
    IF diffMinutes = 0 THEN <<".">> ELSE <<" of ", sourceLabel, ".">>

\* describeRelativeTime of the time helpers: the whole sentence as one text
describeRelativeTime(sourceLabel, targetLabel, diffMinutes) ==
    IF diffMinutes = 0
    THEN <<targetLabel, " and ", sourceLabel, " currently ",
           "share the same local time", ".">>
    ELSE IF diffMinutes > 0
    THEN <<targetLabel, " time is ">> \o formatHourMinuteDifference(diffMinutes)
         \o <<" ahead", " of ", sourceLabel, ".">>
    ELSE <<targetLabel, " time is ">> \o formatHourMinuteDifference(diffMinutes)
         \o <<" behind", " ", sourceLabel, ".">>

\* instant.toLocaleTimeString('en-US', {timeZone, hour: '2-digit', minute:
\* '2-digit', hour12: !is24Hour}) split by lines 760-772 into the time and the
\* meridiem marker
formatConverterClockTime(instant, timeZone, is24Hour) ==
    LET local  == UTCFields(instant + UtcOffsetAt(timeZone, instant))
        hour12 == IF local.hour % 12 = 0 THEN 12 ELSE local.hour % 12
    IN  IF is24Hour
        THEN [time |-> pad2(local.hour) \o <<":">> \o pad2(local.minute),
              period |-> <<>>]
        ELSE [time |-> pad2(hour12) \o <<":">> \o pad2(local.minute),
              period |-> IF local.hour >= 12 THEN <<"P", "M">> ELSE <<"A", "M">>]

WeekdayNames ==
    <<"Sunday", "Monday", "Tuesday", "Wednesday", "Thursday", "Friday", "Saturday">>

MonthNames ==
    <<"January", "February", "March", "April", "May", "June", "July", "August",
      "September", "October", "November", "December">>

\* instant.toLocaleDateString('en-US', {timeZone, weekday: 'long', year:
\* 'numeric', month: 'long', day: 'numeric'}); day 0 of the epoch is a Thursday
formatConverterDate(instant, timeZone) ==
    LET t     == instant + UtcOffsetAt(timeZone, instant)
        local == UTCFields(t)
    IN  <<WeekdayNames[(((t \div MinutesPerDay) + 4) % 7) + 1], ", ",
          MonthNames[local.month], " ">>
        \o NumberToString(local.day) \o <<", ">> \o NumberToString(local.year)

\* the object computeConverterViewData returns (lines 120-162) next to its
\* locals requestedWall, result, sourceWall, targetWall and diffMinutes; call
\* is the call of resolveSourceInstant of line 116
ViewWith(state, sourceZone, targetZone, is24Hour, requestedWall, call, sourceWall, targetWall) ==
    [state |-> NextState(state, sourceWall),
     requestedWall |-> requestedWall,
     call |-> call,
     result |-> call.result,
     sourceWall |-> sourceWall,
     targetWall |-> targetWall,
     targetTime |->
        formatConverterClockTime(call.result.instant, targetZone.timeZone, is24Hour).time,
     targetPeriod |->
        formatConverterClockTime(call.result.instant, targetZone.timeZone, is24Hour).period,
     targetDate |-> formatConverterDate(call.result.instant, targetZone.timeZone),
     diffMinutes |-> DiffMinutes(sourceWall, targetWall),
     relativeText |->
        RelativeText(sourceZone.label, targetZone.label, DiffMinutes(sourceWall, targetWall)),
     relativeEmphasis |-> RelativeEmphasis(DiffMinutes(sourceWall, targetWall)),
     relativeTail |-> RelativeTail(sourceZone.label, DiffMinutes(sourceWall, targetWall)),
     hint |-> buildDstHint(call.result, sourceZone.label)]

\* lines 116-118: the instant resolved in the source zone and projected into
\* the source and the target zone
ViewOf(cache, state, sourceZone, targetZone, is24Hour, requestedWall, call) ==
    ViewWith(state, sourceZone, targetZone, is24Hour, requestedWall, call,
        partsToWall(getZonedDateTimeParts(
            CacheAfterGet(cache, sourceZone.timeZone),
            call.result.instant, sourceZone.timeZone)),
        partsToWall(getZonedDateTimeParts(
            CacheAfterGet(cache, sourceZone.timeZone),
            call.result.instant, targetZone.timeZone)))

\* Null when it returns null (lines 108-114)
computeConverterViewData(cache, state, is24Hour) ==
    IF \/ findTimeZoneOptionByTimeZone(state.sourceTimeZone) = Null
       \/ findTimeZoneOptionByTimeZone(state.targetTimeZone) = Null
       \/ parseWallTime(state.date, state.time) = Null
    THEN Null
    ELSE ViewOf(cache, state,
             findTimeZoneOptionByTimeZone(state.sourceTimeZone),
             findTimeZoneOptionByTimeZone(state.targetTimeZone),
             is24Hour,
             parseWallTime(state.date, state.time),
             ResolveCall(cache, state.sourceTimeZone,
                         parseWallTime(state.date, state.time)))

(***************************************************************************)
(* The source time field.                                                  *)
(***************************************************************************)
\* hour % 12 without the "|| 12" of line 65
formatSourceTimeForDisplay_zeroHour(time24, is24Hour) ==
    IF ~MatchesTimePattern(time24) THEN time24
    ELSE
        LET hour   == Number(SubSeq(time24, 1, 2))
            minute == Number(SubSeq(time24, 4, 5))
        IN  IF is24Hour THEN pad2(hour) \o <<":">> \o pad2(minute)
            ELSE NumberToString(hour % 12) \o <<":">> \o pad2(minute)
                 \o <<" ">> \o (IF hour >= 12 THEN <<"P", "M">> ELSE <<"A", "M">>)

formatSourceTimeForDisplay(time24, is24Hour) ==
    IF ~MatchesTimePattern(time24) THEN time24
    ELSE
        LET hour   == Number(SubSeq(time24, 1, 2))
            minute == Number(SubSeq(time24, 4, 5))
            hour12 == IF hour % 12 = 0 THEN 12 ELSE hour % 12
        IN  IF is24Hour THEN pad2(hour) \o <<":">> \o pad2(minute)
            ELSE NumberToString(hour12) \o <<":">> \o pad2(minute)
                 \o <<" ">> \o (IF hour >= 12 THEN <<"P", "M">> ELSE <<"A", "M">>)

UpperChar(c) ==
    CASE c = "a" -> "A" [] c = "p" -> "P" [] c = "m" -> "M" [] OTHER -> c

RECURSIVE Trim(_)
Trim(s) ==
    IF Len(s) = 0 THEN s
    ELSE IF s[1] = " " THEN Trim(Tail(s))
    ELSE IF s[Len(s)] = " " THEN Trim(SubSeq(s, 1, Len(s) - 1))
    ELSE s

\* value.trim().toUpperCase()
Normalized(value) == LET t == Trim(value) IN [i \in 1..Len(t) |-> UpperChar(t[i])]

\* the position of ":" when s begins with one or two digits and ":", else 0
ColonAfterHour(s) ==
    IF Len(s) >= 2 /\ IsDigit(s[1]) /\ s[2] = ":" THEN 2
    ELSE IF Len(s) >= 3 /\ IsDigit(s[1]) /\ IsDigit(s[2]) /\ s[3] = ":" THEN 3
    ELSE 0

RECURSIVE SkipSpaces(_)
SkipSpaces(s) == IF Len(s) > 0 /\ s[1] = " " THEN SkipSpaces(Tail(s)) ELSE s

parseSourceTimeTo24(value) ==
    LET normalized == Normalized(value)
        colon      == ColonAfterHour(normalized)
        hasMinute  == /\ colon > 0
                      /\ Len(normalized) >= colon + 2
                      /\ IsDigit(normalized[colon + 1])
                      /\ IsDigit(normalized[colon + 2])
        hour       == Number(SubSeq(normalized, 1, colon - 1))
        minute     == Number(SubSeq(normalized, colon + 1, colon + 2))
        rest       == SubSeq(normalized, colon + 3, Len(normalized))
        \* /^(\d{1,2}):(\d{2})$/
        hhmm       == hasMinute /\ Len(rest) = 0
        \* /^(\d{1,2}):(\d{2})\s*([AP]M)$/
        meridiem   == IF hasMinute THEN SkipSpaces(rest) ELSE <<>>
        hhmmMeridiem == hasMinute /\ (meridiem = <<"A", "M">> \/ meridiem = <<"P", "M">>)
    IN  IF Len(normalized) = 0 THEN Null
        ELSE IF hhmm /\ hour >= 0 /\ hour <= 23 /\ minute >= 0 /\ minute <= 59
        THEN [time |-> pad2(hour) \o <<":">> \o pad2(minute)]
        ELSE IF hhmmMeridiem
        THEN IF hour < 1 \/ hour > 12 \/ minute < 0 \/ minute > 59 THEN Null
             ELSE [time |-> pad2(IF meridiem[1] = "P" THEN (hour % 12) + 12 ELSE hour % 12)
                            \o <<":">> \o pad2(minute)]
        ELSE Null

(***************************************************************************)
(* The zone fields: what the user types is matched against the options.    *)
(***************************************************************************)
UpperLetters ==
    <<"A", "B", "C", "D", "E", "F", "G", "H", "I", "J", "K", "L", "M",
      "N", "O", "P", "Q", "R", "S", "T", "U", "V", "W", "X", "Y", "Z">>

LowerLetters ==
    <<"a", "b", "c", "d", "e", "f", "g", "h", "i", "j", "k", "l", "m",
      "n", "o", "p", "q", "r", "s", "t", "u", "v", "w", "x", "y", "z">>

LowerChar(c) ==
    IF \E i \in 1..26 : UpperLetters[i] = c
    THEN LowerLetters[CHOOSE i \in 1..26 : UpperLetters[i] = c]
    ELSE c

\* text.toLowerCase()
ToLowerCase(text) == [i \in 1..Len(text) |-> LowerChar(text[i])]

\* text.startsWith(prefix)
StartsWith(text, prefix) ==
    Len(prefix) <= Len(text) /\ SubSeq(text, 1, Len(prefix)) = prefix

\* getTimeZoneOptions(): the options of the supported zones, sorted by label
TimeZoneOptions ==
    <<findTimeZoneOptionByTimeZone("Europe/Helsinki"),
      findTimeZoneOptionByTimeZone("Pacific/Kiritimati"),
      findTimeZoneOptionByTimeZone("Pacific/Pago_Pago"),
      findTimeZoneOptionByTimeZone("UTC")>>

\* option.labelLower === needle || option.timeZoneLower === needle
IsExactOption(option, needle) ==
    \/ ToLowerCase(Chars(option.label)) = needle
    \/ ToLowerCase(Chars(option.timeZone)) = needle

\* option.labelLower.startsWith(needle) || option.timeZoneLower.startsWith(needle)
IsPrefixOption(option, needle) ==
    \/ StartsWith(ToLowerCase(Chars(option.label)), needle)
    \/ StartsWith(ToLowerCase(Chars(option.timeZone)), needle)

\* the option found for the needle value.trim().toLowerCase(): the first exact
\* one, else the only one the needle is a prefix of, else Null
OptionForNeedle(needle) ==
    IF Len(needle) = 0 THEN Null
    ELSE IF \E i \in DOMAIN TimeZoneOptions : IsExactOption(TimeZoneOptions[i], needle)
    THEN TimeZoneOptions[CHOOSE i \in DOMAIN TimeZoneOptions :
            /\ IsExactOption(TimeZoneOptions[i], needle)
            /\ \A j \in 1..(i - 1) : ~IsExactOption(TimeZoneOptions[j], needle)]
    ELSE IF Cardinality({i \in DOMAIN TimeZoneOptions :
                            IsPrefixOption(TimeZoneOptions[i], needle)}) = 1
    THEN TimeZoneOptions[CHOOSE i \in DOMAIN TimeZoneOptions :
            IsPrefixOption(TimeZoneOptions[i], needle)]
    ELSE Null

findTimeZoneOptionByInput(value) == OptionForNeedle(ToLowerCase(Trim(value)))

(***************************************************************************)
(* The zone lists: visibility, active option and hide timers of the lists  *)
(* under the source and the target zone field.  zl is the record the       *)
(* variable zoneList holds: hideTimers is zoneListHideTimers, activeIndex  *)
(* is zoneListActiveIndex, hidden[role] says the list has the class        *)
(* 'hidden', buttons[role] is the number of option buttons in it, timeouts *)
(* are the window's pending timers and nextTimeoutId the id setTimeout     *)
(* returns next (ids grow from 1 and are not used twice); ran, cancelled   *)
(* and replaced keep the ids whose callback has run, which                 *)
(* cancelHideZoneList has cancelled and which hideZoneListLater has        *)
(* cleared for a new one.  A handle of hideTimers that is undefined is 0,   *)
(* which no timer has for its id and which the code's tests of the handle  *)
(* take as undefined too; an activeIndex that is undefined is -1, which    *)
(* is what every read of it makes of undefined ("?? -1").                  *)
(***************************************************************************)
ZoneRoles == {"source", "target"}

ZoneListAtStart ==
    [hideTimers |-> [role \in ZoneRoles |-> 0],
     activeIndex |-> [role \in ZoneRoles |-> -1],
     hidden |-> [role \in ZoneRoles |-> TRUE],
     buttons |-> [role \in ZoneRoles |-> 0],
     timeouts |-> {},
     nextTimeoutId |-> 1,
     ran |-> {},
     cancelled |-> {},
     replaced |-> {}]

\* the timer is pending in the window
IsPending(zl, id) == \E timeout \in zl.timeouts : timeout.id = id

\* window.clearTimeout(id)
clearTimeout(zl, id) ==
    [zl EXCEPT !.timeouts = {timeout \in @ : timeout.id # id}]

\* window.setTimeout(() => setZoneListVisibility(elements, role, false), 120)
setTimeout(zl, role) ==
    [zl EXCEPT !.timeouts = @ \cup {[id |-> zl.nextTimeoutId, role |-> role]},
               !.nextTimeoutId = @ + 1]

setZoneListVisibility(zl, role, visible) ==
    [zl EXCEPT !.hidden[role] = ~visible,
               !.activeIndex[role] = IF ~visible THEN -1 ELSE @]

hideZoneListLater(zl, role) ==
    LET earlier == zl.hideTimers[role]
        cleared == IF earlier # 0
                   THEN [clearTimeout(zl, earlier) EXCEPT
                            !.replaced = IF IsPending(zl, earlier)
                                         THEN @ \cup {earlier} ELSE @]
                   ELSE zl
    IN  [setTimeout(cleared, role) EXCEPT !.hideTimers[role] = zl.nextTimeoutId]

\* the handle forgotten, the timer not cleared (line 194 left out)
cancelHideZoneList_notCleared(zl, role) ==
    IF zl.hideTimers[role] = 0 THEN zl
    ELSE [zl EXCEPT
            !.cancelled = IF IsPending(zl, zl.hideTimers[role])
                          THEN @ \cup {zl.hideTimers[role]} ELSE @,
            !.hideTimers[role] = 0]

cancelHideZoneList(zl, role) ==
    IF zl.hideTimers[role] = 0 THEN zl
    ELSE [clearTimeout(zl, zl.hideTimers[role]) EXCEPT
            !.cancelled = IF IsPending(zl, zl.hideTimers[role])
                          THEN @ \cup {zl.hideTimers[role]} ELSE @,
            !.hideTimers[role] = 0]

\* the callback of the timer runs (lines 184-186)
HideTimerRan(zl, timeout) ==
    setZoneListVisibility(
        [zl EXCEPT !.timeouts = @ \ {timeout}, !.ran = @ \cup {timeout.id}],
        timeout.role, FALSE)

setActiveZoneOption(zl, role, index) ==
    IF zl.buttons[role] = 0
    THEN [zl EXCEPT !.activeIndex[role] = -1]
    ELSE [zl EXCEPT !.activeIndex[role] =
            IF index < 0 THEN 0
            ELSE IF index > zl.buttons[role] - 1 THEN zl.buttons[role] - 1
            ELSE index]

moveActiveZoneOption(zl, role, delta) ==
    IF zl.buttons[role] = 0 THEN zl
    ELSE
        LET current == zl.activeIndex[role]
            nextIndex ==
                IF current < 0
                THEN IF delta > 0 THEN 0 ELSE zl.buttons[role] - 1
                ELSE (current + delta + zl.buttons[role]) % zl.buttons[role]
        IN  setActiveZoneOption(zl, role, nextIndex)

\* renderZoneList(elements, role), matches the number of options
\* filterTimeZoneOptions found for the text of the field
renderZoneList(zl, role, matches) ==
    IF matches = 0
    THEN setZoneListVisibility([zl EXCEPT !.buttons[role] = 0], role, FALSE)
    ELSE setActiveZoneOption(
            setZoneListVisibility([zl EXCEPT !.buttons[role] = matches], role, TRUE),
            role, 0)

(***************************************************************************)
(* The card grid of scripts/drag-drop.ts.  A card is named by its          *)
(* data-location; cardGrid.cards is the order of the .clock-card children  *)
(* of #clock-grid, cardGrid.draggedElement the module variable ("" for     *)
(* null), cardGrid.storage what localStorage holds under STORAGE_KEY (the  *)
(* empty set when nothing is stored, else the one stored array:            *)
(* JSON.stringify of an array of such names is read back by JSON.parse as  *)
(* the same array).  cardGrid.lastEvent is a history field: the event the  *)
(* last step handled.                                                      *)
(***************************************************************************)
DEFAULT_ORDER ==
    <<"utc", "helsinki", "manila", "netherlands", "san-francisco", "beijing", "sydney", "tokyo">>

\* the grid holds the cards of the first CardCount locations
CardCount == 4

Cards == {DEFAULT_ORDER[i] : i \in 1..CardCount}

\* the orders the cards of the grid can stand in
CardOrders ==
    {order \in [1..CardCount -> Cards] :
        \A i, j \in 1..CardCount : order[i] = order[j] => i = j}

\* saveOrder()
saveOrder(grid) == [grid EXCEPT !.storage = {grid.cards}]

\* restoreOrder(grid): every location of the order that names a card moves
\* that card to the end of the grid (appendChild)
restoreOrder(cards, storage) ==
    LET order == IF storage # {} THEN CHOOSE saved \in storage : TRUE ELSE DEFAULT_ORDER
        RECURSIVE Appended(_, _)
        Appended(children, i) ==
            IF i > Len(order) THEN children
            ELSE IF \E k \in 1..Len(children) : children[k] = order[i]
            THEN Appended(SelectSeq(children, LAMBDA card : card # order[i]) \o <<order[i]>>,
                          i + 1)
            ELSE Appended(children, i + 1)
    IN Appended(cards, 1)

\* the drop handler with before() on both branches
handleDrop_alwaysBefore(grid, target) ==
    IF grid.draggedElement = "" THEN grid
    ELSE IF target # "" /\ target # grid.draggedElement
    THEN LET others == SelectSeq(grid.cards, LAMBDA card : card # grid.draggedElement)
             at == CHOOSE i \in 1..Len(others) : others[i] = target
         IN saveOrder([grid EXCEPT !.cards =
                SubSeq(others, 1, at - 1) \o <<grid.draggedElement>>
                    \o SubSeq(others, at, Len(others))])
    ELSE grid

\* handleDrop(e), target the card closest to e.target ("" when the drop is
\* on the grid outside every card)
handleDrop(grid, target) ==
    IF grid.draggedElement = "" THEN grid
    ELSE IF target # "" /\ target # grid.draggedElement
    THEN LET cards == grid.cards
             indexOf(card) ==
                IF \E i \in 1..Len(cards) : cards[i] = card
                THEN (CHOOSE i \in 1..Len(cards) : cards[i] = card) - 1
                ELSE -1
             draggedIndex == indexOf(grid.draggedElement)
             dropIndex == indexOf(target)
             \* after() and before() take the dragged card out of its place first
             others == SelectSeq(cards, LAMBDA card : card # grid.draggedElement)
             at == CHOOSE i \in 1..Len(others) : others[i] = target
             moved ==
                IF draggedIndex < dropIndex
                THEN SubSeq(others, 1, at) \o <<grid.draggedElement>>
                        \o SubSeq(others, at + 1, Len(others))
                ELSE SubSeq(others, 1, at - 1) \o <<grid.draggedElement>>
                        \o SubSeq(others, at, Len(others))
         IN saveOrder([grid EXCEPT !.cards = moved])
    ELSE grid

\* the grid after initDragAndDrop with nothing stored: restoreOrder puts the
\* cards in DEFAULT_ORDER whatever order the markup has them in
CardGridAtStart ==
    [cards |-> restoreOrder([i \in 1..CardCount |-> DEFAULT_ORDER[i]], {}),
     draggedElement |-> "",
     storage |-> {},
     lastEvent |-> [type |-> "load", target |-> ""]]

(***************************************************************************)
(* The converter as a state machine of UI events.                          *)
(***************************************************************************)
VARIABLES
    converterState,            \* converter-ui.ts: let converterState
    is24HourState,             \* converter-ui.ts: let is24HourState
    zonedPartsFormatterCache,  \* the per-zone formatter cache
    storedState,               \* localStorage[CONVERTER_STORAGE_KEY], Null when absent
    sourceTimeInput,           \* elements.sourceTimeInput.value
    sourceDateInput,           \* elements.sourceDateInput.value
    hintText,                  \* elements.hint.textContent
    lastResolve,               \* the call of resolveSourceInstant the latest step made
    lastView,                  \* the call of computeConverterViewData it made
    lastCall,                  \* the latest call of a helper made on its own
    events,                    \* the number of UI events handled so far
    zoneList,                  \* the two zone lists: hide timers, active index, visibility
    cardGrid                   \* drag-drop.ts: the clock cards, draggedElement, the saved order

vars == <<converterState, is24HourState, zonedPartsFormatterCache, storedState,
          sourceTimeInput, sourceDateInput, hintText, lastResolve, lastView,
          lastCall, events,
          zoneList, cardGrid>>

\* the model follows the page through this many events, initConverter included
MaxEvents == 4

EmptyCache == <<>>

\* what the user can leave in the source time field
TimeTexts == TimeValues \cup {Chars("25:99"), Chars("3:30 AM"), Chars("")}

\* what the date field can hold after an edit
DateTexts == DateValues \cup {Chars("")}

\* the dates the model lets the user enter in the state: the early date only
\* while both zones are UTC
DateTextsIn(state) ==
    IF state.sourceTimeZone = "UTC" /\ state.targetTimeZone = "UTC"
    THEN DateTexts \cup {EarlyDate}
    ELSE DateTexts

\* new Date() at start-up
NowInstants == {DateUTC(2024, 9, 27, 4, 0)}

DEFAULT_SOURCE_TIMEZONE == "UTC"
DEFAULT_TARGET_TIMEZONE == "Europe/Helsinki"

getDefaultConverterState(cache, now) ==
    LET nowParts == partsToWall(getZonedDateTimeParts(cache, now, DEFAULT_SOURCE_TIMEZONE))
    IN  [sourceTimeZone |-> DEFAULT_SOURCE_TIMEZONE,
         targetTimeZone |-> DEFAULT_TARGET_TIMEZONE,
         date |-> formatDateInputValue(nowParts),
         time |-> formatTimeInputValue(nowParts)]

\* the variables as one record
Current ==
    [converterState |-> converterState,
     is24HourState |-> is24HourState,
     zonedPartsFormatterCache |-> zonedPartsFormatterCache,
     storedState |-> storedState,
     sourceTimeInput |-> sourceTimeInput,
     sourceDateInput |-> sourceDateInput,
     hintText |-> hintText,
     lastResolve |-> lastResolve,
     lastView |-> lastView]

\* renderFromState from line 255 on, view the value computeConverterViewData
\* returned
Rendered(cur, state, view, persistState, preserveSourceTimeInput) ==
    IF view = Null
    THEN [cur EXCEPT
            !.zonedPartsFormatterCache = CacheAfterCompute(@, state),
            !.lastView = [input |-> state, view |-> view],
            !.converterState = state,
            !.hintText = <<"Enter a valid source date and time.">>,
            !.lastResolve = Null]
    ELSE [cur EXCEPT
            !.zonedPartsFormatterCache = CacheAfterCompute(@, state),
            !.lastView = [input |-> state, view |-> view],
            !.converterState = view.state,
            !.sourceDateInput = view.state.date,
            !.sourceTimeInput =
                IF preserveSourceTimeInput THEN cur.sourceTimeInput
                ELSE formatSourceTimeForDisplay(view.state.time, cur.is24HourState),
            !.hintText = view.hint,
            !.storedState = IF persistState THEN view.state ELSE cur.storedState,
            !.lastResolve = view.call]

\* renderFromState(elements, state, persistState, preserveSourceTimeInput)
\* run in the state cur: the state after it
renderFromState(cur, state, persistState, preserveSourceTimeInput) ==
    Rendered(cur, state,
        computeConverterViewData(cur.zonedPartsFormatterCache, state, cur.is24HourState),
        persistState, preserveSourceTimeInput)

syncInputsFromState(cur, state) ==
    [cur EXCEPT
        !.sourceDateInput = state.date,
        !.sourceTimeInput = formatSourceTimeForDisplay(state.time, cur.is24HourState)]

isSupportedTimeZone(timeZone) == findTimeZoneOptionByTimeZone(timeZone) # Null

\* loadConverterState() of the stored value; Null when it is rejected
loadConverterState(stored) ==
    IF stored = Null THEN Null
    ELSE IF \/ ~isSupportedTimeZone(stored.sourceTimeZone)
            \/ ~isSupportedTimeZone(stored.targetTimeZone)
            \/ parseWallTime(stored.date, stored.time) = Null
    THEN Null
    ELSE stored

\* what localStorage holds when the page loads
StoredAtStart ==
    {Null,
     [sourceTimeZone |-> "Europe/Helsinki", targetTimeZone |-> "Pacific/Kiritimati",
      date |-> Chars("2024-03-31"), time |-> Chars("03:30")],
     [sourceTimeZone |-> "Europe/Helsinki", targetTimeZone |-> "UTC",
      date |-> Chars("2024-02-30"), time |-> Chars("03:30")],
     [sourceTimeZone |-> UnknownTimeZone, targetTimeZone |-> "UTC",
      date |-> Chars("2024-03-31"), time |-> Chars("03:30")]}

\* initConverter(getIs24Hour) run in the state cur, the clock reading now
initConverter(cur, now) ==
    LET loaded == loadConverterState(cur.storedState)
        state  == IF loaded # Null THEN loaded
                  ELSE getDefaultConverterState(cur.zonedPartsFormatterCache, now)
        cache  == IF loaded # Null THEN cur.zonedPartsFormatterCache
                  ELSE CacheAfterGet(cur.zonedPartsFormatterCache, DEFAULT_SOURCE_TIMEZONE)
        start  == [cur EXCEPT !.converterState = state,
                              !.is24HourState = TRUE,
                              !.zonedPartsFormatterCache = cache]
    IN  renderFromState(syncInputsFromState(start, state), state, FALSE, FALSE)

Becomes(next) ==
    /\ converterState' = next.converterState
    /\ is24HourState' = next.is24HourState
    /\ zonedPartsFormatterCache' = next.zonedPartsFormatterCache
    /\ storedState' = next.storedState
    /\ sourceTimeInput' = next.sourceTimeInput
    /\ sourceDateInput' = next.sourceDateInput
    /\ hintText' = next.hintText
    /\ lastResolve' = next.lastResolve
    /\ lastView' = next.lastView
    /\ lastCall' = lastCall
    /\ UNCHANGED <<zoneList, cardGrid>>

\* the module-level state when the scripts are loaded
Init ==
    /\ converterState = Null
    /\ is24HourState = TRUE
    /\ zonedPartsFormatterCache = EmptyCache
    /\ storedState \in StoredAtStart
    /\ sourceTimeInput = <<>>
    /\ sourceDateInput = <<>>
    /\ hintText = <<>>
    /\ lastResolve = Null
    /\ lastView = Null
    /\ lastCall = Null
    /\ events = 0
    /\ zoneList = ZoneListAtStart
    /\ cardGrid = CardGridAtStart

\* one more event is handled
Handled ==
    /\ events < MaxEvents
    /\ events' = events + 1

\* the page calls initConverter once; the event listeners exist after it
InitConverter ==
    /\ Handled
    /\ converterState = Null
    /\ \E now \in NowInstants : Becomes(initConverter(Current, now))

\* the return of line 503 left out: the rejected text goes on into the state
onDateTimeChange_rejectedRendered(cur, preserveSourceTimeInput) ==
    LET parsedTime == parseSourceTimeTo24(cur.sourceTimeInput)
    IN  renderFromState(cur,
            [cur.converterState EXCEPT
                !.date = cur.sourceDateInput,
                !.time = IF parsedTime = Null THEN cur.sourceTimeInput
                         ELSE parsedTime.time],
            TRUE, preserveSourceTimeInput)

\* onDateTimeChange(preserveSourceTimeInput) run in the state cur
onDateTimeChange(cur, preserveSourceTimeInput) ==
    LET parsedTime == parseSourceTimeTo24(cur.sourceTimeInput)
    IN  IF parsedTime = Null
        THEN [cur EXCEPT !.hintText = <<"Enter time as HH:MM (24H) or h:MM AM/PM (12H).">>,
                         !.lastResolve = Null,
                         !.lastView = Null]
        ELSE renderFromState(cur,
                 [cur.converterState EXCEPT !.date = cur.sourceDateInput,
                                            !.time = parsedTime.time],
                 TRUE, preserveSourceTimeInput)

\* the user types in the source time field: 'input' event
SourceTimeInput ==
    /\ Handled
    /\ converterState # Null
    /\ \E text \in TimeTexts :
        Becomes(onDateTimeChange([Current EXCEPT !.sourceTimeInput = text], TRUE))

\* the source time field loses focus after an edit: 'change' event
SourceTimeChange ==
    /\ Handled
    /\ converterState # Null
    /\ Becomes(onDateTimeChange(Current, FALSE))

\* the user picks or clears a date: 'input' and 'change' events
SourceDateInput ==
    /\ Handled
    /\ converterState # Null
    /\ \E date \in DateTextsIn(converterState) :
        Becomes(onDateTimeChange([Current EXCEPT !.sourceDateInput = date], FALSE))

\* applySelectedZone(elements, role, option), from a click on a list option
applySelectedZone(cur, role, option) ==
    renderFromState(cur,
        IF role = "source"
        THEN [cur.converterState EXCEPT !.sourceTimeZone = option.timeZone]
        ELSE [cur.converterState EXCEPT !.targetTimeZone = option.timeZone],
        TRUE, FALSE)

\* the zones the user picks from the list
ZoneChoices == {"UTC", "Europe/Helsinki", "Pacific/Kiritimati"}

SelectZone ==
    /\ Handled
    /\ converterState # Null
    /\ \E role \in {"source", "target"}, timeZone \in ZoneChoices :
        Becomes(applySelectedZone(Current, role, findTimeZoneOptionByTimeZone(timeZone)))

\* applyZoneInput from line 390 on, selected the option found for the text of
\* the zone field
ZoneInputApplied(cur, role, selected) ==
    IF selected = Null
    THEN [cur EXCEPT !.lastResolve = Null, !.lastView = Null]
    ELSE applySelectedZone(cur, role, selected)

\* applyZoneInput(elements, role), value the text of the zone field
applyZoneInput(cur, role, value) ==
    ZoneInputApplied(cur, role, findTimeZoneOptionByInput(value))

\* what the user leaves in a zone field
ZoneInputTexts ==
    {Chars("utc"), Chars(" Helsinki "), Chars("pacific/k"), Chars("pac"),
     Chars("Mars/Olympus_Mons"), Chars("")}

\* the zone field loses focus, or Enter is pressed with no option active
ZoneTyped ==
    /\ Handled
    /\ converterState # Null
    /\ \E role \in {"source", "target"}, value \in ZoneInputTexts :
        Becomes(applyZoneInput(Current, role, value))

\* the target zone copied to the source, the source not copied to the target
swapConverterValues_targetKept(cur) ==
    LET nextState == [cur.converterState EXCEPT
                        !.sourceTimeZone = cur.converterState.targetTimeZone]
    IN  renderFromState(syncInputsFromState(cur, nextState), nextState, TRUE, FALSE)

swapConverterValues(cur) ==
    LET nextState == [cur.converterState EXCEPT
                        !.sourceTimeZone = cur.converterState.targetTimeZone,
                        !.targetTimeZone = cur.converterState.sourceTimeZone]
    IN  renderFromState(syncInputsFromState(cur, nextState), nextState, TRUE, FALSE)

Swap ==
    /\ Handled
    /\ converterState # Null
    /\ Becomes(swapConverterValues(Current))

\* refreshConverterForFormatChange(is24Hour), from a click on a format button
refreshConverterForFormatChange(cur, is24Hour) ==
    LET set == [cur EXCEPT !.is24HourState = is24Hour]
    IN  renderFromState(set, set.converterState, FALSE, FALSE)

FormatChange ==
    /\ Handled
    /\ converterState # Null
    /\ \E is24Hour \in BOOLEAN :
        Becomes(refreshConverterForFormatChange(Current, is24Hour))

Next ==
    \/ InitConverter
    \/ SourceTimeInput
    \/ SourceTimeChange
    \/ SourceDateInput
    \/ SelectZone
    \/ ZoneTyped
    \/ Swap
    \/ FormatChange

Spec == Init /\ [][Next]_vars

(***************************************************************************)
(* The resolver as a function: calls of resolveSourceInstant with inputs   *)
(* drawn from the model's zones and wall times.                            *)
(***************************************************************************)
ResolveAny ==
    \E timeZone \in SupportedTimeZones, requestedWall \in ModelWalls :
        /\ lastResolve' = ResolveCall(zonedPartsFormatterCache, timeZone, requestedWall)
        /\ zonedPartsFormatterCache' = CacheAfterGet(zonedPartsFormatterCache, timeZone)
        /\ UNCHANGED <<converterState, is24HourState, storedState, sourceTimeInput,
                       sourceDateInput, hintText, lastView, lastCall, events, zoneList, cardGrid>>

NextResolve == ResolveAny

SpecResolve == Init /\ [][NextResolve]_vars

(***************************************************************************)
(* The view builder, the parser and the hint builder as functions: one     *)
(* call per behaviour, its arguments drawn from the sets below.            *)
(***************************************************************************)
\* year, month and day written as YYYY-MM-DD, the year padded to four digits
DateText(year, month, day) ==
    LET y == NumberToString(year)
    IN  [i \in 1..(4 - Len(y)) |-> "0"] \o y
        \o <<"-">> \o pad2(month) \o <<"-">> \o pad2(day)

TimeText(hour, minute) == pad2(hour) \o <<":">> \o pad2(minute)

\* the states handed to computeConverterViewData
ViewStates ==
    [sourceTimeZone : SupportedTimeZones \cup {UnknownTimeZone},
     targetTimeZone : SupportedTimeZones \cup {UnknownTimeZone},
     date : DateTexts \cup {Chars("2024-02-30")},
     time : TimeTexts]
    \cup [sourceTimeZone : {"UTC"}, targetTimeZone : {"UTC"},
          date : {EarlyDate}, time : TimeValues]

\* the dates handed to parseWallTime: calendar dates and dates off the
\* calendar, in common, leap and century years, and texts of another form
ParseDates ==
    {DateText(year, month, day) :
        year \in {50, 500, 1900, 2000, 2023, 2024},
        month \in {0, 1, 2, 4, 12, 13},
        day \in {0, 1, 28, 29, 30, 31, 32}}
    \cup {<<>>,
          Tail(DateText(2024, 3, 31)),
          DateText(2024, 3, 31) \o <<" ">>,
          [DateText(2024, 3, 31) EXCEPT ![5] = "/"],
          [DateText(2024, 3, 31) EXCEPT ![1] = "+"]}

\* the times handed to parseWallTime
ParseTimes ==
    {TimeText(hour, minute) : hour \in {0, 23, 24}, minute \in {0, 59, 60}}
    \cup {<<>>, Chars("3:30 AM"), Tail(TimeText(3, 30)), TimeText(3, 30) \o <<":", "0", "0">>}

\* the results handed to buildDstHint
HintResults ==
    [instant : {HelsinkiDstStart},
     status : {"normal", "ambiguous", "invalid-adjusted"},
     adjustedWall : {Null, [year |-> 2024, month |-> 3, day |-> 31, hour |-> 4, minute |-> 0],
                     [year |-> 2025, month |-> 1, day |-> 1, hour |-> 0, minute |-> 5]}]

\* no call has been made in this behaviour
NoCallYet ==
    /\ events = 0
    /\ events' = events + 1

\* the state after computeConverterViewData(state, is24Hour) returned view
ViewCalled(cur, state, is24Hour, view) ==
    [cur EXCEPT
        !.is24HourState = is24Hour,
        !.zonedPartsFormatterCache = CacheAfterCompute(@, state),
        !.lastView = [input |-> state, view |-> view],
        !.lastResolve = IF view = Null THEN Null ELSE view.call]

ComputeAny ==
    /\ NoCallYet
    /\ \E state \in ViewStates, is24Hour \in BOOLEAN :
        Becomes(ViewCalled(Current, state, is24Hour,
            computeConverterViewData(zonedPartsFormatterCache, state, is24Hour)))

ParseAny ==
    /\ NoCallYet
    /\ \E dateValue \in ParseDates, timeValue \in ParseTimes :
        lastCall' = [op |-> "parseWallTime", dateValue |-> dateValue,
                     timeValue |-> timeValue,
                     result |-> parseWallTime(dateValue, timeValue)]
    /\ UNCHANGED <<converterState, is24HourState, zonedPartsFormatterCache,
                   storedState, sourceTimeInput, sourceDateInput, hintText,
                   lastResolve, lastView, zoneList, cardGrid>>

HintAny ==
    /\ NoCallYet
    /\ \E result \in HintResults, sourceLabel \in {"UTC", "Helsinki, Finland"} :
        lastCall' = [op |-> "buildDstHint", result |-> result,
                     sourceLabel |-> sourceLabel,
                     hint |-> buildDstHint(result, sourceLabel)]
    /\ UNCHANGED <<converterState, is24HourState, zonedPartsFormatterCache,
                   storedState, sourceTimeInput, sourceDateInput, hintText,
                   lastResolve, lastView, zoneList, cardGrid>>

\* the differences handed to describeRelativeTime
DiffValues ==
    {-1500, -840, -585, -65, -60, -59, -5, -1, 0, 1, 5, 59, 60, 65, 345, 840, 1500}

\* describeRelativeTime(sourceLabel, targetLabel, diffMinutes), and next to it
\* the three texts computeConverterViewData makes of the same labels and
\* difference (lines 137-148)
DescribeAny ==
    /\ NoCallYet
    /\ \E sourceLabel \in {"UTC", "Helsinki, Finland"}, diffMinutes \in DiffValues :
        lastCall' = [op |-> "describeRelativeTime", sourceLabel |-> sourceLabel,
                     targetLabel |-> "Kiritimati", diffMinutes |-> diffMinutes,
                     text |-> describeRelativeTime(sourceLabel, "Kiritimati", diffMinutes),
                     relativeText |-> RelativeText(sourceLabel, "Kiritimati", diffMinutes),
                     relativeEmphasis |-> RelativeEmphasis(diffMinutes),
                     relativeTail |-> RelativeTail(sourceLabel, diffMinutes)]
    /\ UNCHANGED <<converterState, is24HourState, zonedPartsFormatterCache,
                   storedState, sourceTimeInput, sourceDateInput, hintText,
                   lastResolve, lastView, zoneList, cardGrid>>

\* the hours and minutes of the canonical times handed to
\* formatSourceTimeForDisplay
DisplayHours == 0..23

DisplayMinutes == {0, 1, 9, 10, 30, 59}

\* formatSourceTimeForDisplay(time24, is24Hour), and parseSourceTimeTo24 of
\* the text it returned
DisplayAny ==
    /\ NoCallYet
    /\ \E hour \in DisplayHours, minute \in DisplayMinutes, is24Hour \in BOOLEAN :
        lastCall' = [op |-> "formatSourceTimeForDisplay",
                     hour |-> hour, minute |-> minute,
                     time24 |-> TimeText(hour, minute), is24Hour |-> is24Hour,
                     text |-> formatSourceTimeForDisplay(TimeText(hour, minute), is24Hour),
                     parsed |-> parseSourceTimeTo24(
                        formatSourceTimeForDisplay(TimeText(hour, minute), is24Hour))]
    /\ UNCHANGED <<converterState, is24HourState, zonedPartsFormatterCache,
                   storedState, sourceTimeInput, sourceDateInput, hintText,
                   lastResolve, lastView, zoneList, cardGrid>>

\* the hours, minutes and endings of the texts typed in the source time
\* field, the hour written with one digit where it has one or with two
TypedHours == {0, 1, 9, 12, 13, 23, 24, 99}

TypedMinutes == {0, 59, 60, 99}

TypedEndings == {<<>>, <<" ", "A", "M">>, <<"P", "M">>, <<" ", " ", "p", "m">>}

TypedTime(hour, minute, padded, ending) ==
    (IF padded THEN pad2(hour) ELSE NumberToString(hour))
    \o <<":">> \o pad2(minute) \o ending

\* parseSourceTimeTo24(value)
TypedAny ==
    /\ NoCallYet
    /\ \E hour \in TypedHours, minute \in TypedMinutes, padded \in BOOLEAN,
          ending \in TypedEndings :
        lastCall' = [op |-> "parseSourceTimeTo24",
                     hour |-> hour, minute |-> minute, meridiem |-> ending # <<>>,
                     value |-> TypedTime(hour, minute, padded, ending),
                     result |-> parseSourceTimeTo24(TypedTime(hour, minute, padded, ending))]
    /\ UNCHANGED <<converterState, is24HourState, zonedPartsFormatterCache,
                   storedState, sourceTimeInput, sourceDateInput, hintText,
                   lastResolve, lastView, zoneList, cardGrid>>

NextFunctions ==
    \/ ComputeAny
    \/ ParseAny
    \/ HintAny
    \/ DescribeAny
    \/ DisplayAny
    \/ TypedAny

SpecFunctions == Init /\ [][NextFunctions]_vars

(***************************************************************************)
(* The zone lists as a state machine: the listeners attachZoneInputEvents  *)
(* and renderZoneList attach, and the hide timers.  This specification     *)
(* follows zoneList only; what the same listeners do to the converter      *)
(* state is followed by ZoneTyped and SelectZone above.                    *)
(***************************************************************************)
\* the model follows the window through this many calls of setTimeout
MaxTimers == 3

\* matches.length in renderZoneList
MatchCounts == {0, 1, 3}

ZoneListBecomes(next) ==
    /\ zoneList' = next
    /\ UNCHANGED <<converterState, is24HourState, zonedPartsFormatterCache,
                   storedState, sourceTimeInput, sourceDateInput, hintText,
                   lastResolve, lastView, lastCall, events, cardGrid>>

\* 'focus' on a zone field
ZoneFocus ==
    \E role \in ZoneRoles, matches \in MatchCounts :
        ZoneListBecomes(renderZoneList(cancelHideZoneList(zoneList, role), role, matches))

\* 'input' on a zone field
ZoneInput ==
    \E role \in ZoneRoles, matches \in MatchCounts :
        ZoneListBecomes(renderZoneList(zoneList, role, matches))

\* 'keydown' with ArrowDown (delta 1) or ArrowUp (delta -1)
ZoneArrow ==
    \E role \in ZoneRoles, matches \in MatchCounts, delta \in {1, -1} :
        ZoneListBecomes(moveActiveZoneOption(
            IF zoneList.hidden[role] THEN renderZoneList(zoneList, role, matches)
            ELSE zoneList,
            role, delta))

\* 'keydown' with Enter (applySelectedZone or applyZoneInput) or Escape, and
\* 'mousedown' on an option of a list that is shown: the list is hidden at once
ZoneListClosed ==
    \E role \in ZoneRoles :
        ZoneListBecomes(setZoneListVisibility(zoneList, role, FALSE))

\* 'blur' of a zone field: hideZoneListLater, then applyZoneInput, which
\* hides the list on either of its paths
ZoneBlur ==
    /\ zoneList.nextTimeoutId <= MaxTimers
    /\ \E role \in ZoneRoles :
        ZoneListBecomes(setZoneListVisibility(hideZoneListLater(zoneList, role),
                                              role, FALSE))

\* 'mouseenter' on a list
ListMouseEnter ==
    \E role \in ZoneRoles : ZoneListBecomes(cancelHideZoneList(zoneList, role))

\* 'mouseleave' on a list
ListMouseLeave ==
    /\ zoneList.nextTimeoutId <= MaxTimers
    /\ \E role \in ZoneRoles : ZoneListBecomes(hideZoneListLater(zoneList, role))

\* the 120 ms of a pending timer are over
HideTimerRuns ==
    \E timeout \in zoneList.timeouts : ZoneListBecomes(HideTimerRan(zoneList, timeout))

NextZoneList ==
    \/ ZoneFocus
    \/ ZoneInput
    \/ ZoneArrow
    \/ ZoneListClosed
    \/ ZoneBlur
    \/ ListMouseEnter
    \/ ListMouseLeave
    \/ HideTimerRuns

\* the page after initConverter with nothing stored; a pending timer runs in
\* the end, the window's timers being served
\* the page loaded with nothing in storage
InitNothingStored == Init /\ storedState = Null

SpecZoneList == InitNothingStored /\ [][NextZoneList]_vars /\ WF_vars(HideTimerRuns)


(***************************************************************************)
(* The card grid as a state machine: the listeners initDragAndDrop         *)
(* attaches on a device with a mouse (on a touch device it attaches none). *)
(***************************************************************************)
\* 'dragstart' on a card; the browser starts no drag while one is under way
handleDragStart ==
    /\ cardGrid.draggedElement = ""
    /\ \E card \in Cards :
        cardGrid' = [cardGrid EXCEPT !.draggedElement = card,
                                     !.lastEvent = [type |-> "dragstart", target |-> card]]
    /\ UNCHANGED <<converterState, is24HourState, zonedPartsFormatterCache,
                   storedState, sourceTimeInput, sourceDateInput, hintText,
                   lastResolve, lastView, lastCall, events, zoneList>>

\* 'dragend' on the dragged card
handleDragEnd ==
    /\ cardGrid.draggedElement # ""
    /\ cardGrid' = saveOrder([cardGrid EXCEPT
            !.draggedElement = "",
            !.lastEvent = [type |-> "dragend", target |-> cardGrid.draggedElement]])
    /\ UNCHANGED <<converterState, is24HourState, zonedPartsFormatterCache,
                   storedState, sourceTimeInput, sourceDateInput, hintText,
                   lastResolve, lastView, lastCall, events, zoneList>>

\* 'drop' on the grid, of a dragged card or of something dragged from
\* outside the grid (draggedElement is null then)
DropOnGrid ==
    /\ \E target \in Cards \cup {""} :
        cardGrid' = [handleDrop(cardGrid, target) EXCEPT
                        !.lastEvent = [type |-> "drop", target |-> target]]
    /\ UNCHANGED <<converterState, is24HourState, zonedPartsFormatterCache,
                   storedState, sourceTimeInput, sourceDateInput, hintText,
                   lastResolve, lastView, lastCall, events, zoneList>>

\* the page is loaded again: the cards stand in the order of the markup,
\* the module starts with draggedElement null and restoreOrder runs
initDragAndDrop ==
    /\ \E markup \in CardOrders :
        cardGrid' = [cards |-> restoreOrder(markup, cardGrid.storage),
                     draggedElement |-> "",
                     storage |-> cardGrid.storage,
                     lastEvent |-> [type |-> "load", target |-> ""]]
    /\ UNCHANGED <<converterState, is24HourState, zonedPartsFormatterCache,
                   storedState, sourceTimeInput, sourceDateInput, hintText,
                   lastResolve, lastView, lastCall, events, zoneList>>

NextGrid ==
    \/ handleDragStart
    \/ handleDragEnd
    \/ DropOnGrid
    \/ initDragAndDrop

SpecGrid == InitNothingStored /\ [][NextGrid]_vars


(***************************************************************************)
(* What the zone rules say about a request, stated without the loop: the   *)
(* instants of the search window and the wall time each one shows.         *)
(***************************************************************************)
HalfWindow == 36 * 60

ProjectedWall(timeZone, t) ==
    partsToWall(FormatToParts(NewDateTimeFormat(timeZone), t))

\* the candidate instants of a request: the half window each way of the
\* requested wall time read as an instant
Window(wall) ==
    (wallToMinuteEpoch(wall) - HalfWindow)..(wallToMinuteEpoch(wall) + HalfWindow)

\* what the zone rules say of the window of a request: the candidates at
\* which the zone shows the requested wall time, the offsets of the zone over
\* the window and the candidates at which its offset changes
WindowFacts(timeZone, wall) ==
    [matching    |-> {t \in Window(wall) : ProjectedWall(timeZone, t) = wall},
     offsets     |-> {UtcOffsetAt(timeZone, t) : t \in Window(wall)},
     transitions |-> {t \in Window(wall) :
                        UtcOffsetAt(timeZone, t) # UtcOffsetAt(timeZone, t - 1)}]

WindowFactsTable ==
    [timeZone \in SupportedTimeZones, wall \in ModelWalls |->
        WindowFacts(timeZone, wall)]

FactsOf(call) ==
    IF call.timeZone \in SupportedTimeZones /\ call.requestedWall \in ModelWalls
    THEN WindowFactsTable[call.timeZone, call.requestedWall]
    ELSE WindowFacts(call.timeZone, call.requestedWall)

\* the candidate instants of a call of resolveSourceInstant
Candidates(call) == Window(call.requestedWall)

\* the wall time the zone of the call shows at a candidate
ShownAt(call, t) == ProjectedWall(call.timeZone, t)

\* the candidates that show the requested wall time
MatchingInstants(call) == FactsOf(call).matching

Wall(year, month, day, hour, minute) ==
    [year |-> year, month |-> month, day |-> day, hour |-> hour, minute |-> minute]

Resolved == lastResolve # Null

\* C1: when no candidate of the window shows the requested wall time, the
\* result is invalid-adjusted, its adjustedWall is the smallest wall time of a
\* candidate strictly later than the request, and its instant is the earliest
\* candidate showing that wall time; 03:30 in the 03:00 -> 04:00 gap of
\* Europe/Helsinki gives 04:00
Thm_C1_GapTakesFirstLaterWall ==
    (Resolved /\ MatchingInstants(lastResolve) = {}) =>
        LET r         == lastResolve.result
            requested == wallToMinuteEpoch(lastResolve.requestedWall)
            adjusted  == wallToMinuteEpoch(r.adjustedWall)
        IN  /\ r.status = "invalid-adjusted"
            /\ r.adjustedWall # Null
            /\ adjusted > requested
            /\ r.instant \in Candidates(lastResolve)
            /\ ShownAt(lastResolve, r.instant) = r.adjustedWall
            /\ \A t \in Candidates(lastResolve) :
                    /\ ~(/\ requested < wallToMinuteEpoch(ShownAt(lastResolve, t))
                         /\ wallToMinuteEpoch(ShownAt(lastResolve, t)) < adjusted)
                    /\ (t < r.instant => ShownAt(lastResolve, t) # r.adjustedWall)
            /\ (/\ lastResolve.timeZone = "Europe/Helsinki"
                /\ lastResolve.requestedWall = Wall(2024, 3, 31, 3, 30))
               => r.adjustedWall = Wall(2024, 3, 31, 4, 0)

Wit_C1_GapResolved ==
    /\ Resolved
    /\ lastResolve.timeZone = "Europe/Helsinki"
    /\ lastResolve.requestedWall = Wall(2024, 3, 31, 3, 30)
    /\ MatchingInstants(lastResolve) = {}
    /\ lastResolve.result.adjustedWall = Wall(2024, 3, 31, 4, 0)

\* C2: when two or more candidates show the requested wall time, the result
\* is ambiguous and its instant is the smallest of the matching instants
Thm_C2_OverlapTakesEarliest ==
    (Resolved /\ Cardinality(MatchingInstants(lastResolve)) >= 2) =>
        /\ lastResolve.result.status = "ambiguous"
        /\ lastResolve.result.instant \in MatchingInstants(lastResolve)
        /\ \A t \in MatchingInstants(lastResolve) : lastResolve.result.instant <= t

Wit_C2_OverlapResolved ==
    /\ Resolved
    /\ lastResolve.timeZone = "Europe/Helsinki"
    /\ lastResolve.requestedWall = Wall(2024, 10, 27, 3, 30)
    /\ Cardinality(MatchingInstants(lastResolve)) = 2
    /\ lastResolve.result.instant = HelsinkiDstEnd - 30

\* C3: when exactly one candidate shows the requested wall time, the result
\* is normal with exactly that instant and no adjustedWall
Thm_C3_SingleMatchIsNormal ==
    (Resolved /\ Cardinality(MatchingInstants(lastResolve)) = 1) =>
        /\ lastResolve.result.status = "normal"
        /\ MatchingInstants(lastResolve) = {lastResolve.result.instant}
        /\ lastResolve.result.adjustedWall = Null

Wit_C3_SingleMatchResolved ==
    /\ Resolved
    /\ lastResolve.timeZone = "Europe/Helsinki"
    /\ lastResolve.requestedWall = Wall(2024, 3, 31, 2, 59)
    /\ MatchingInstants(lastResolve) = {HelsinkiDstStart - 1}
    /\ lastResolve.result.status = "normal"

\* C4: when a call returns invalid-adjusted with an adjustedWall, resolving
\* that adjustedWall in the same zone returns normal with the same instant
Thm_C4_AdjustedWallResolvesNormal ==
    (/\ Resolved
     /\ lastResolve.result.status = "invalid-adjusted"
     /\ lastResolve.result.adjustedWall # Null) =>
        LET again == resolveSourceInstant(zonedPartsFormatterCache,
                         lastResolve.timeZone, lastResolve.result.adjustedWall)
        IN  /\ again.status = "normal"
            /\ again.instant = lastResolve.result.instant
            /\ again.adjustedWall = Null

Wit_C4_AdjustedAtGapStart ==
    /\ Resolved
    /\ lastResolve.timeZone = "Europe/Helsinki"
    /\ lastResolve.requestedWall = Wall(2024, 3, 31, 3, 0)
    /\ lastResolve.result.status = "invalid-adjusted"
    /\ lastResolve.result.adjustedWall = Wall(2024, 3, 31, 4, 0)
    /\ lastResolve.result.instant = HelsinkiDstStart

\* the offset of the zone is the same at every candidate of the call
ConstantOffsetInWindow(call) ==
    Cardinality(FactsOf(call).offsets) = 1

\* C5: in a zone whose offset is constant, every call returns normal, and the
\* returned instant projected back into the zone (getZonedDateTimeParts, then
\* partsToWall) is the requested wall time
Thm_C5_ConstantOffsetRoundTrip ==
    (Resolved /\ ConstantOffsetInWindow(lastResolve)) =>
        /\ lastResolve.result.status = "normal"
        /\ partsToWall(getZonedDateTimeParts(zonedPartsFormatterCache,
               lastResolve.result.instant, lastResolve.timeZone))
           = lastResolve.requestedWall

Wit_C5_ConstantOffsetResolved ==
    /\ Resolved
    /\ lastResolve.timeZone = "Pacific/Pago_Pago"
    /\ ConstantOffsetInWindow(lastResolve)
    /\ lastResolve.requestedWall = Wall(2024, 10, 27, 2, 59)
    /\ lastResolve.result.instant = DateUTC(2024, 9, 27, 13, 59)

\* C7: adjustedWall is present only in an invalid-adjusted result; when the
\* wall time the zone shows at the returned instant differs from the request,
\* adjustedWall is present and is that wall time; in a normal or ambiguous
\* result the zone shows the requested wall time at the returned instant
Thm_C7_AdjustedWallIsTheProjection ==
    Resolved =>
        LET r     == lastResolve.result
            shown == ProjectedWall(lastResolve.timeZone, r.instant)
        IN  /\ r.adjustedWall # Null => r.status = "invalid-adjusted"
            /\ shown # lastResolve.requestedWall => r.adjustedWall = shown
            /\ r.status \in {"normal", "ambiguous"} => shown = lastResolve.requestedWall

Wit_C7_AdjustedWallPresent ==
    /\ Resolved
    /\ lastResolve.result.status = "invalid-adjusted"
    /\ lastResolve.result.adjustedWall
        = ProjectedWall(lastResolve.timeZone, lastResolve.result.instant)
    /\ lastResolve.result.adjustedWall # lastResolve.requestedWall

FourteenHours == 14 * 60

\* the offset of the zone stays within fourteen hours of UTC over the window
\* and changes at most once in it
OffsetOfRealZone(call) ==
    /\ \A offset \in FactsOf(call).offsets :
            offset <= FourteenHours /\ offset >= -FourteenHours
    /\ Cardinality(FactsOf(call).transitions) <= 1

\* C8: for a zone within fourteen hours of UTC with at most one transition in
\* the window, a call leaves by the exact, the ambiguous or the nextAfter
\* return, never by the nearest or the baseline return
Thm_C8_WindowSuffices ==
    (Resolved /\ OffsetOfRealZone(lastResolve)) =>
        lastResolve.branch \in {"exact", "ambiguous", "nextAfter"}

Wit_C8_FourteenHoursAhead ==
    /\ Resolved
    /\ lastResolve.timeZone = "Pacific/Kiritimati"
    /\ UtcOffsetAt("Pacific/Kiritimati", lastResolve.result.instant) = FourteenHours
    /\ OffsetOfRealZone(lastResolve)
    /\ lastResolve.branch = "exact"

\* C9: a call returns what the same call returns with an empty formatter
\* cache and what it returns when repeated with the cache the calls so far
\* have left, whether or not the cache held the zone before the call
Thm_C9_ResultIndependentOfCache ==
    Resolved =>
        /\ lastResolve.result
            = resolveSourceInstant(EmptyCache, lastResolve.timeZone,
                                   lastResolve.requestedWall)
        /\ lastResolve.result
            = resolveSourceInstant(zonedPartsFormatterCache, lastResolve.timeZone,
                                   lastResolve.requestedWall)

Wit_C9_RepeatedAmbiguousCall ==
    /\ Resolved
    /\ lastResolve.cached
    /\ DOMAIN zonedPartsFormatterCache = SupportedTimeZones
    /\ lastResolve.result.status = "ambiguous"
    /\ lastResolve.result.instant = HelsinkiDstEnd - 60

\* computeConverterViewData has returned a view
Viewed == lastView # Null /\ lastView.view # Null

\* resolveSourceInstant on the date and time of the state of the last view,
\* in its source zone
EchoResolved ==
    resolveSourceInstant(zonedPartsFormatterCache,
        lastView.view.state.sourceTimeZone,
        parseWallTime(lastView.view.state.date, lastView.view.state.time))

Thm_C10_DiffIsOffsetDifference ==
    Viewed =>
        LET view == lastView.view
        IN  /\ view.diffMinutes =
                  UtcOffsetAt(view.state.targetTimeZone, view.result.instant)
                  - UtcOffsetAt(view.state.sourceTimeZone, view.result.instant)
            /\ (/\ view.state.sourceTimeZone = "UTC"
                /\ view.state.targetTimeZone = "Pacific/Kiritimati")
               => view.diffMinutes = FourteenHours

Wit_C10_MinuteBeforeTransition ==
    /\ Viewed
    /\ lastView.view.state.sourceTimeZone = "Europe/Helsinki"
    /\ lastView.view.state.targetTimeZone = "UTC"
    /\ lastView.view.result.instant = HelsinkiDstStart - 1
    /\ lastView.view.diffMinutes = -120

\* the signed offset in minutes from the source to the target zone at an
\* instant, computed as lines 117-118 and 135 compute it
OffsetBetween(instant, sourceTimeZone, targetTimeZone) ==
    DiffMinutes(
        partsToWall(getZonedDateTimeParts(zonedPartsFormatterCache, instant, sourceTimeZone)),
        partsToWall(getZonedDateTimeParts(zonedPartsFormatterCache, instant, targetTimeZone)))

\* C11: at the instant a view resolved, the offset of the view is the offset
\* from its source to its target zone, and for every pair of zones A and B the
\* offset from A to B is the negation of the offset from B to A
Thm_C11_OffsetAntisymmetric ==
    Viewed =>
        /\ lastView.view.diffMinutes
            = OffsetBetween(lastView.view.result.instant,
                  lastView.view.state.sourceTimeZone, lastView.view.state.targetTimeZone)
        /\ \A a \in SupportedTimeZones, b \in SupportedTimeZones :
                OffsetBetween(lastView.view.result.instant, a, b)
                = -OffsetBetween(lastView.view.result.instant, b, a)

Wit_C11_HelsinkiToKiritimati ==
    /\ Viewed
    /\ lastView.view.state.sourceTimeZone = "Europe/Helsinki"
    /\ lastView.view.state.targetTimeZone = "Pacific/Kiritimati"
    /\ lastView.view.diffMinutes = 660
    /\ OffsetBetween(lastView.view.result.instant,
            "Pacific/Kiritimati", "Europe/Helsinki") = -660

\* C12: a view whose source and target zone are the same zone has the offset
\* 0 and the emphasis 'share the same local time', whether the requested wall
\* time was normal, ambiguous or skipped
Thm_C12_SameZoneSharesLocalTime ==
    (Viewed /\ lastView.input.sourceTimeZone = lastView.input.targetTimeZone) =>
        /\ lastView.view.diffMinutes = 0
        /\ lastView.view.relativeEmphasis = <<"share the same local time">>
        /\ lastView.view.targetWall = lastView.view.sourceWall
        /\ lastView.view.result.status \in {"normal", "ambiguous", "invalid-adjusted"}

Wit_C12_SameZoneInGap ==
    /\ Viewed
    /\ lastView.input.sourceTimeZone = "Europe/Helsinki"
    /\ lastView.input.targetTimeZone = "Europe/Helsinki"
    /\ lastView.view.result.status = "invalid-adjusted"
    /\ lastView.view.relativeEmphasis = <<"share the same local time">>

\* the emphasis e is the wording of the difference d: the fixed text for 0,
\* else H, ":", two digits MM, " hours" and " ahead" or " behind", with
\* H = |d| div 60 written without leading zeros and MM = |d| mod 60
WordingOf(d, e) ==
    IF d = 0 THEN e = <<"share the same local time">>
    ELSE /\ Len(e) >= 6
         /\ e[Len(e)] = (IF d > 0 THEN " ahead" ELSE " behind")
         /\ e[Len(e) - 1] = " hours"
         /\ IsDigit(e[Len(e) - 2])
         /\ IsDigit(e[Len(e) - 3])
         /\ e[Len(e) - 4] = ":"
         /\ \A i \in 1..(Len(e) - 5) : IsDigit(e[i])
         /\ (Len(e) - 5 > 1 => e[1] # "0")
         /\ Number(SubSeq(e, 1, Len(e) - 5)) = Abs(d) \div 60
         /\ Number(SubSeq(e, Len(e) - 3, Len(e) - 2)) = Abs(d) % 60

\* the sentence of describeRelativeTime begins with the text before the
\* emphasis and goes on with the emphasis
SameWording(sentence, relativeText, relativeEmphasis) ==
    /\ Len(sentence) > Len(relativeText) + Len(relativeEmphasis)
    /\ SubSeq(sentence, 1, Len(relativeText)) = relativeText
    /\ SubSeq(sentence, Len(relativeText) + 1, Len(relativeText) + Len(relativeEmphasis))
        = relativeEmphasis

Described == lastCall # Null /\ lastCall.op = "describeRelativeTime"

\* C13: the emphasis of a view, and the emphasis made of any difference, is
\* 'share the same local time' for 0, '<H:MM> hours ahead' for a positive and
\* '<H:MM> hours behind' for a negative difference, H = floor(|d| / 60) and
\* MM = |d| mod 60 in two digits; the sentence of describeRelativeTime for the
\* same labels and difference carries the same wording
Thm_C13_RelativeWording ==
    /\ Viewed =>
        /\ WordingOf(lastView.view.diffMinutes, lastView.view.relativeEmphasis)
        /\ SameWording(
                describeRelativeTime(ZoneLabel(lastView.view.state.sourceTimeZone),
                    ZoneLabel(lastView.view.state.targetTimeZone),
                    lastView.view.diffMinutes),
                lastView.view.relativeText, lastView.view.relativeEmphasis)
    /\ Described =>
        /\ WordingOf(lastCall.diffMinutes, lastCall.relativeEmphasis)
        /\ SameWording(lastCall.text, lastCall.relativeText, lastCall.relativeEmphasis)

Wit_C13_OneHourFiveBehind ==
    /\ Described
    /\ lastCall.diffMinutes = -65
    /\ lastCall.relativeEmphasis = <<"1", ":", "0", "5", " hours", " behind">>
    /\ lastCall.text = <<"Kiritimati", " time is ", "1", ":", "0", "5", " hours",
                         " behind", " ", "UTC", ".">>

\* computeConverterViewData has been called
ViewAsked == lastView # Null

\* the zones of the state are supported ones
ZonesSupported(state) ==
    /\ state.sourceTimeZone \in SupportedTimeZones
    /\ state.targetTimeZone \in SupportedTimeZones

\* C14: computeConverterViewData returns null, no call of resolveSourceInstant
\* made and no formatter built, when a zone of the state is not supported or
\* its date and time do not parse (the time 25:99, a date off the calendar,
\* an empty date); in every other case it returns a view, having resolved
\* the parsed wall time in the source zone
Thm_C14_NullExactlyOnBadInput ==
    ViewAsked =>
        /\ (~ZonesSupported(lastView.input)
            \/ parseWallTime(lastView.input.date, lastView.input.time) = Null)
            => /\ lastView.view = Null
               /\ lastResolve = Null
               /\ zonedPartsFormatterCache = EmptyCache
        /\ (ZonesSupported(lastView.input)
            /\ parseWallTime(lastView.input.date, lastView.input.time) # Null)
            => /\ lastView.view # Null
               /\ lastResolve # Null
               /\ lastResolve.timeZone = lastView.input.sourceTimeZone
               /\ lastResolve.requestedWall
                    = parseWallTime(lastView.input.date, lastView.input.time)
        /\ lastView.input.time = Chars("25:99") => lastView.view = Null
        /\ lastView.input.date \in {Chars("2024-02-30"), Chars("")} => lastView.view = Null
        /\ lastView.input.sourceTimeZone = UnknownTimeZone => lastView.view = Null
        /\ lastView.input.targetTimeZone = UnknownTimeZone => lastView.view = Null

Wit_C14_MalformedTimeGivesNull ==
    /\ ViewAsked
    /\ ZonesSupported(lastView.input)
    /\ lastView.input.date = Chars("2024-03-31")
    /\ lastView.input.time = Chars("25:99")
    /\ lastView.view = Null
    /\ lastResolve = Null

\* the target time of the view as the user would type it: the time, and the
\* meridiem marker when there is one
TargetTimeShown(view) ==
    IF view.targetPeriod = <<>> THEN view.targetTime
    ELSE view.targetTime \o <<" ">> \o view.targetPeriod

\* C15: for supported zones and a date and time that parse there is a view,
\* whatever the status; it carries a target time (the time of the target
\* wall), a target date and a relative text, and its hint is non-empty
\* exactly when the status is not normal
Thm_C15_DstCasesNeverBlock ==
    (/\ ViewAsked
     /\ ZonesSupported(lastView.input)
     /\ parseWallTime(lastView.input.date, lastView.input.time) # Null) =>
        /\ lastView.view # Null
        /\ lastView.view.result.status \in {"normal", "ambiguous", "invalid-adjusted"}
        /\ Len(lastView.view.targetTime) > 0
        /\ parseSourceTimeTo24(TargetTimeShown(lastView.view))
            = [time |-> formatTimeInputValue(lastView.view.targetWall)]
        /\ Len(lastView.view.targetDate) > 0
        /\ Len(lastView.view.relativeText) > 0
        /\ Len(lastView.view.relativeEmphasis) > 0
        /\ (lastView.view.hint # <<>>) <=> (lastView.view.result.status # "normal")

Wit_C15_AmbiguousStillConverted ==
    /\ Viewed
    /\ lastView.input.sourceTimeZone = "Europe/Helsinki"
    /\ lastView.input.targetTimeZone = "Pacific/Kiritimati"
    /\ lastView.view.result.status = "ambiguous"
    /\ is24HourState
    /\ lastView.view.targetTime = <<"1", "4", ":", "3", "0">>
    /\ lastView.view.targetDate
        = <<"Sunday", ", ", "October", " ", "2", "7", ", ", "2", "0", "2", "4">>
    /\ lastView.view.hint # <<>>

\* parseWallTime has been called on its own
Parsed == lastCall # Null /\ lastCall.op = "parseWallTime"

GregorianLeap(year) == year % 4 = 0 /\ (year % 100 # 0 \/ year % 400 = 0)

DaysInMonth(year, month) ==
    IF month \in {4, 6, 9, 11} THEN 30
    ELSE IF month = 2 THEN (IF GregorianLeap(year) THEN 29 ELSE 28)
    ELSE 31

\* the fields are those of a date of the calendar and a time of the day
CalendarValid(year, month, day, hour, minute) ==
    /\ month \in 1..12
    /\ day \in 1..DaysInMonth(year, month)
    /\ hour \in 0..23
    /\ minute \in 0..59

\* C16 as stated: parseWallTime returns null exactly when the date is not ten
\* characters YYYY-MM-DD, the time is not five characters HH:MM, the hour is
\* above 23, the minute above 59 or the date not one of the calendar; else it
\* returns the wall time with the fields as written
Orig_C16_NullExactlyOnInvalid ==
    Parsed =>
        IF ~MatchesDatePattern(lastCall.dateValue) \/ ~MatchesTimePattern(lastCall.timeValue)
        THEN lastCall.result = Null
        ELSE LET year   == Number(SubSeq(lastCall.dateValue, 1, 4))
                 month  == Number(SubSeq(lastCall.dateValue, 6, 7))
                 day    == Number(SubSeq(lastCall.dateValue, 9, 10))
                 hour   == Number(SubSeq(lastCall.timeValue, 1, 2))
                 minute == Number(SubSeq(lastCall.timeValue, 4, 5))
             IN  IF CalendarValid(year, month, day, hour, minute)
                 THEN lastCall.result = Wall(year, month, day, hour, minute)
                 ELSE lastCall.result = Null

\* buildDstHint has been called on its own
Hinted == lastCall # Null /\ lastCall.op = "buildDstHint"

\* C17: the hint is empty for normal; for ambiguous it is the sentence 'occurs
\* twice ... Used the earlier occurrence.' with the label of the zone; for
\* invalid-adjusted with an adjustedWall it is the 'does not exist' sentence
\* ending in the date and time of adjustedWall as YYYY-MM-DD HH:MM in
\* brackets, and without an adjustedWall the same sentence without them
Thm_C17_HintPerStatus ==
    Hinted =>
        /\ lastCall.result.status = "normal" => lastCall.hint = <<>>
        /\ lastCall.result.status = "ambiguous" =>
                lastCall.hint
                = <<"The selected time in ", lastCall.sourceLabel,
                    " occurs twice due to daylight saving time. Used the earlier occurrence.">>
        /\ (lastCall.result.status = "invalid-adjusted"
            /\ lastCall.result.adjustedWall # Null) =>
                /\ Len(lastCall.hint) = 20
                /\ SubSeq(lastCall.hint, 1, 3)
                    = <<"The selected time in ", lastCall.sourceLabel,
                        " does not exist due to daylight saving time. Used the next valid local time (">>
                /\ MatchesDatePattern(SubSeq(lastCall.hint, 4, 13))
                /\ lastCall.hint[14] = " "
                /\ MatchesTimePattern(SubSeq(lastCall.hint, 15, 19))
                /\ parseWallTime(SubSeq(lastCall.hint, 4, 13), SubSeq(lastCall.hint, 15, 19))
                    = lastCall.result.adjustedWall
                /\ lastCall.hint[20] = ")."
        /\ (lastCall.result.status = "invalid-adjusted"
            /\ lastCall.result.adjustedWall = Null) =>
                lastCall.hint
                = <<"The selected time in ", lastCall.sourceLabel,
                    " does not exist due to daylight saving time.">>

Wit_C17_AdjustedWallInHint ==
    /\ Hinted
    /\ lastCall.result.status = "invalid-adjusted"
    /\ lastCall.result.adjustedWall = Wall(2025, 1, 1, 0, 5)
    /\ SubSeq(lastCall.hint, 4, 19)
        = <<"2", "0", "2", "5", "-", "0", "1", "-", "0", "1", " ", "0", "0", ":", "0", "5">>

\* C18 as stated: the loop of a call goes through 2,161 candidates, one per
\* minute, from 36 hours before to 36 hours after the requested wall time
\* read as an instant, each projected once
Orig_C18_Candidates2161 ==
    Resolved =>
        /\ lastResolve.loop.projected = 2161
        /\ lastResolve.loop.firstMs = wallToMinuteEpoch(lastResolve.requestedWall) - HalfWindow
        /\ lastResolve.loop.lastMs = wallToMinuteEpoch(lastResolve.requestedWall) + HalfWindow
        /\ lastResolve.loop.stepOneMinute

\* C18 amended: the loop of a call goes through 4,321 candidates (twice 2,160
\* and the baseline), one per minute, from 36 hours before to 36 hours after
\* the requested wall time read as an instant, each projected once
Thm_C18_Candidates4321 ==
    Resolved =>
        /\ lastResolve.loop.projected = 4321
        /\ lastResolve.loop.projected = 2 * HalfWindow + 1
        /\ lastResolve.loop.firstMs = wallToMinuteEpoch(lastResolve.requestedWall) - HalfWindow
        /\ lastResolve.loop.lastMs = wallToMinuteEpoch(lastResolve.requestedWall) + HalfWindow
        /\ lastResolve.loop.stepOneMinute
        /\ lastResolve.loop.projected
            = lastResolve.loop.lastMs - lastResolve.loop.firstMs + 1

Wit_C18_WholeWindowProjected ==
    /\ Resolved
    /\ lastResolve.timeZone = "Pacific/Pago_Pago"
    /\ lastResolve.requestedWall = Wall(2024, 3, 31, 4, 0)
    /\ lastResolve.loop.projected = 4321
    /\ lastResolve.loop.firstMs = DateUTC(2024, 2, 29, 16, 0)
    /\ lastResolve.loop.lastMs = DateUTC(2024, 3, 1, 16, 0)

\* C19 as stated: after initConverter the converter state always holds a date
\* and a time that parseWallTime accepts
Orig_C19_StateAlwaysParses ==
    converterState # Null =>
        parseWallTime(converterState.date, converterState.time) # Null

\* C20: every call of resolveSourceInstant the page makes has a supported
\* zone, the source zone of the state in hand, and the wall time parseWallTime
\* returned for the date and time of that state, a date of the calendar and a
\* time of the day
Thm_C20_ResolverGetsValidatedArguments ==
    Resolved =>
        /\ lastResolve.timeZone \in SupportedTimeZones
        /\ ViewAsked
        /\ lastResolve.timeZone = lastView.input.sourceTimeZone
        /\ lastView.input.targetTimeZone \in SupportedTimeZones
        /\ parseWallTime(lastView.input.date, lastView.input.time) # Null
        /\ lastResolve.requestedWall
            = parseWallTime(lastView.input.date, lastView.input.time)
        /\ CalendarValid(lastResolve.requestedWall.year, lastResolve.requestedWall.month,
                lastResolve.requestedWall.day, lastResolve.requestedWall.hour,
                lastResolve.requestedWall.minute)

Wit_C20_StoredUnknownZoneNotResolved ==
    /\ Resolved
    /\ storedState # Null
    /\ storedState.sourceTimeZone = UnknownTimeZone
    /\ lastResolve.timeZone = DEFAULT_SOURCE_TIMEZONE
    /\ lastResolve.requestedWall = Wall(2024, 10, 27, 4, 0)

\* C21 as stated: a wall time parseWallTime returned, written with
\* formatDateInputValue and formatTimeInputValue, parses to the same wall time
Orig_C21_CanonicalRoundTrip ==
    (Parsed /\ lastCall.result # Null) =>
        parseWallTime(formatDateInputValue(lastCall.result),
                      formatTimeInputValue(lastCall.result)) = lastCall.result

\* the instants a cached formatter and a fresh one are compared at
ProbeInstants == {HelsinkiDstStart - 1, HelsinkiDstStart, HelsinkiDstEnd - 1, HelsinkiDstEnd}

\* C23: across the calls of the resolver the formatter cache only grows: an
\* entry stays as it was stored, a formatter is built only for the zone of
\* the call and only when the cache has none for it, every call leaves its
\* zone cached, and a cached formatter projects as a fresh one of its zone
\* does, so the call returns what it would return with an empty cache
Thm_C23_CacheAppendOnly ==
    [][/\ \A timeZone \in DOMAIN zonedPartsFormatterCache :
            /\ timeZone \in DOMAIN zonedPartsFormatterCache'
            /\ zonedPartsFormatterCache'[timeZone] = zonedPartsFormatterCache[timeZone]
       /\ \A timeZone \in DOMAIN zonedPartsFormatterCache' \ DOMAIN zonedPartsFormatterCache :
            /\ lastResolve'.timeZone = timeZone
            /\ ~lastResolve'.cached
       /\ lastResolve'.timeZone \in DOMAIN zonedPartsFormatterCache'
       /\ lastResolve'.cached = (lastResolve'.timeZone \in DOMAIN zonedPartsFormatterCache)
       /\ lastResolve'.cached => zonedPartsFormatterCache' = zonedPartsFormatterCache
       /\ \A timeZone \in DOMAIN zonedPartsFormatterCache', date \in ProbeInstants :
            FormatToParts(zonedPartsFormatterCache'[timeZone], date)
                = FormatToParts(NewDateTimeFormat(timeZone), date)
       /\ lastResolve'.result
            = ResolveCall(EmptyCache, lastResolve'.timeZone,
                          lastResolve'.requestedWall).result
      ]_vars

Wit_C23_CachedFormatterUsedAgain ==
    /\ Resolved
    /\ lastResolve.cached
    /\ lastResolve.timeZone = "Europe/Helsinki"
    /\ lastResolve.result.status = "ambiguous"
    /\ DOMAIN zonedPartsFormatterCache = SupportedTimeZones

\* the step leaves a new text in the source time field and
\* parseSourceTimeTo24 rejects it
RejectedTimeEdit ==
    /\ sourceTimeInput' # sourceTimeInput
    /\ parseSourceTimeTo24(sourceTimeInput') = Null

\* C24: an edit of the source time to a text parseSourceTimeTo24 rejects sets
\* the hint and nothing else: converterState, the stored state, the date
\* field, the display mode and the formatter cache stay as they were, and
\* the step calls neither computeConverterViewData nor resolveSourceInstant
Thm_C24_RejectedTimeOnlySetsHint ==
    [][RejectedTimeEdit =>
        /\ hintText' = <<"Enter time as HH:MM (24H) or h:MM AM/PM (12H).">>
        /\ converterState' = converterState
        /\ storedState' = storedState
        /\ sourceDateInput' = sourceDateInput
        /\ is24HourState' = is24HourState
        /\ zonedPartsFormatterCache' = zonedPartsFormatterCache
        /\ lastView' = Null
        /\ lastResolve' = Null
      ]_vars

Wit_C24_RejectedTimeTyped ==
    /\ converterState # Null
    /\ sourceTimeInput = Chars("25:99")
    /\ converterState.time = Chars("03:30")
    /\ storedState = converterState
    /\ hintText = <<"Enter time as HH:MM (24H) or h:MM AM/PM (12H).">>
    /\ lastView = Null
    /\ lastResolve = Null

\* C25 as stated: a step that writes the stored converter state writes one
\* with two supported zones and a date and time parseWallTime accepts, which
\* loadConverterState gives back unchanged
Orig_C25_SavedStateLoads ==
    [][storedState' # storedState =>
        /\ isSupportedTimeZone(storedState'.sourceTimeZone)
        /\ isSupportedTimeZone(storedState'.targetTimeZone)
        /\ parseWallTime(storedState'.date, storedState'.time) # Null
        /\ loadConverterState(storedState') = storedState'
      ]_vars

\* computeConverterViewData called again with the state the latest view
\* returned, in the same display mode
ViewedAgain ==
    computeConverterViewData(zonedPartsFormatterCache, lastView.view.state, is24HourState)

\* C26 as stated: computeConverterViewData called with the state a view
\* returned gives a view with the same state, the same target time and date,
\* the same offset and the same resolved instant
Orig_C26_ViewIdempotent ==
    Viewed =>
        /\ ViewedAgain # Null
        /\ ViewedAgain.state = lastView.view.state
        /\ ViewedAgain.targetTime = lastView.view.targetTime
        /\ ViewedAgain.targetPeriod = lastView.view.targetPeriod
        /\ ViewedAgain.targetDate = lastView.view.targetDate
        /\ ViewedAgain.diffMinutes = lastView.view.diffMinutes
        /\ ViewedAgain.result.instant = lastView.view.result.instant

\* the page after swapConverterValues, and after swapConverterValues again
SwappedOnce == swapConverterValues(Current)

SwappedTwice == swapConverterValues(SwappedOnce)

\* the date and time of the converter state name a wall time the zone skips
SkippedIn(timeZone) ==
    /\ parseWallTime(converterState.date, converterState.time) # Null
    /\ resolveSourceInstant(zonedPartsFormatterCache, timeZone,
            parseWallTime(converterState.date, converterState.time)).status
        = "invalid-adjusted"

\* C27 as stated: swapConverterValues exchanges the zones and keeps the date
\* and time strings; twice, it restores the zone pair, and the whole state
\* when the wall time is skipped in neither zone
Orig_C27_SwapKeepsDateTime ==
    converterState # Null =>
        /\ SwappedOnce.converterState.sourceTimeZone = converterState.targetTimeZone
        /\ SwappedOnce.converterState.targetTimeZone = converterState.sourceTimeZone
        /\ SwappedOnce.converterState.date = converterState.date
        /\ SwappedOnce.converterState.time = converterState.time
        /\ SwappedTwice.converterState.sourceTimeZone = converterState.sourceTimeZone
        /\ SwappedTwice.converterState.targetTimeZone = converterState.targetTimeZone
        /\ (~SkippedIn(converterState.sourceTimeZone)
                /\ ~SkippedIn(converterState.targetTimeZone))
            => SwappedTwice.converterState = converterState

\* C27 amended: swapConverterValues exchanges the zones and hands the date and
\* time strings on unchanged; the state after it keeps them unless the wall
\* time is skipped in the new source zone, and then holds the next valid wall
\* time of that zone; twice, it restores the zone pair, and the whole state
\* when the wall time is skipped in neither zone
Thm_C27_SwapExchangesZones ==
    converterState # Null =>
        /\ SwappedOnce.converterState.sourceTimeZone = converterState.targetTimeZone
        /\ SwappedOnce.converterState.targetTimeZone = converterState.sourceTimeZone
        /\ SwappedOnce.lastView.input.date = converterState.date
        /\ SwappedOnce.lastView.input.time = converterState.time
        /\ ~SkippedIn(converterState.targetTimeZone)
            => /\ SwappedOnce.converterState.date = converterState.date
               /\ SwappedOnce.converterState.time = converterState.time
        /\ SkippedIn(converterState.targetTimeZone)
            => /\ SwappedOnce.lastView.view.result.status = "invalid-adjusted"
               /\ SwappedOnce.converterState.date
                    = formatDateInputValue(SwappedOnce.lastView.view.result.adjustedWall)
               /\ SwappedOnce.converterState.time
                    = formatTimeInputValue(SwappedOnce.lastView.view.result.adjustedWall)
               /\ SwappedOnce.converterState.time # converterState.time
        /\ SwappedTwice.converterState.sourceTimeZone = converterState.sourceTimeZone
        /\ SwappedTwice.converterState.targetTimeZone = converterState.targetTimeZone
        /\ (~SkippedIn(converterState.sourceTimeZone)
                /\ ~SkippedIn(converterState.targetTimeZone))
            => SwappedTwice.converterState = converterState

Wit_C27_SwappedIntoSkippedTime ==
    /\ ViewAsked
    /\ lastView.input.sourceTimeZone = "Europe/Helsinki"
    /\ lastView.input.targetTimeZone = "UTC"
    /\ lastView.input.date = Chars("2024-03-31")
    /\ lastView.input.time = Chars("03:30")
    /\ converterState.sourceTimeZone = "Europe/Helsinki"
    /\ converterState.time = Chars("04:00")
    /\ storedState = converterState
    /\ SwappedOnce.converterState.sourceTimeZone = "UTC"
    /\ SwappedOnce.converterState.time = Chars("04:00")
    /\ SwappedTwice.converterState = converterState

Displayed == lastCall # Null /\ lastCall.op = "formatSourceTimeForDisplay"

Typed == lastCall # Null /\ lastCall.op = "parseSourceTimeTo24"

\* C28: a canonical time written by formatSourceTimeForDisplay in either mode
\* is read back by parseSourceTimeTo24 as the same time, 00:xx being shown as
\* 12:xx AM and 12:xx as 12:xx PM in the 12-hour mode; parseSourceTimeTo24
\* returns null for an hour above 23 without meridiem, an hour outside 1-12
\* with meridiem, and a minute above 59
Thm_C28_TimeTextRoundTrip ==
    /\ Displayed =>
        /\ lastCall.parsed # Null
        /\ lastCall.parsed.time = lastCall.time24
        /\ lastCall.is24Hour => lastCall.text = lastCall.time24
        /\ (~lastCall.is24Hour /\ lastCall.hour = 0) =>
                lastCall.text = <<"1", "2", ":">> \o pad2(lastCall.minute) \o <<" ", "A", "M">>
        /\ (~lastCall.is24Hour /\ lastCall.hour = 12) =>
                lastCall.text = <<"1", "2", ":">> \o pad2(lastCall.minute) \o <<" ", "P", "M">>
    /\ Typed =>
        /\ (~lastCall.meridiem /\ lastCall.hour > 23) => lastCall.result = Null
        /\ (lastCall.meridiem /\ (lastCall.hour < 1 \/ lastCall.hour > 12))
                => lastCall.result = Null
        /\ lastCall.minute > 59 => lastCall.result = Null

Wit_C28_MidnightShownAsTwelve ==
    /\ Displayed
    /\ ~lastCall.is24Hour
    /\ lastCall.time24 = <<"0", "0", ":", "3", "0">>
    /\ lastCall.text = <<"1", "2", ":", "3", "0", " ", "A", "M">>
    /\ lastCall.parsed # Null
    /\ lastCall.parsed.time = <<"0", "0", ":", "3", "0">>

\* the ids of the timers pending for the role
PendingFor(role) == {timeout.id : timeout \in {t \in zoneList.timeouts : t.role = role}}

\* C29: each zone list has at most one hide timer pending, the one its handle
\* names; a timer cancelHideZoneList cancelled while it was pending never
\* runs; a timer that runs hides its list and sets the active index of its
\* role to -1; and a pending timer in the end runs, unless it is cancelled or
\* cleared for a new one
Thm_C29_HideTimers ==
    /\ [](\A role \in ZoneRoles :
            /\ Cardinality(PendingFor(role)) <= 1
            /\ PendingFor(role) \subseteq {zoneList.hideTimers[role]})
    /\ [](zoneList.cancelled \cap zoneList.ran = {})
    /\ [][\A timeout \in zoneList.timeouts :
            timeout.id \in zoneList'.ran =>
                /\ zoneList'.hidden[timeout.role]
                /\ zoneList'.activeIndex[timeout.role] = -1]_vars
    /\ \A id \in 1..(MaxTimers + 1) :
            IsPending(zoneList, id)
                ~> (id \in zoneList.ran \cup zoneList.cancelled \cup zoneList.replaced)

Wit_C29_OneCancelledOneRan ==
    /\ zoneList.cancelled = {1}
    /\ zoneList.ran = {2}
    /\ zoneList.replaced = {}
    /\ zoneList.timeouts = {[id |-> 3, role |-> "source"]}
    /\ zoneList.hidden["target"]
    /\ zoneList.activeIndex["target"] = -1
    /\ ~zoneList.hidden["source"]

\* C30: after a drop of the dragged card D onto a different card T, D stands
\* at the index T had before the drop, the other cards keep their relative
\* order, no card is lost or duplicated, and the stored order is the new
\* card order; a drop with no dragged card, or onto D itself, changes
\* neither the order nor the stored order
PlaceOf(order, card) == CHOOSE i \in 1..Len(order) : order[i] = card

Thm_C30_DropMovesCard ==
    [][cardGrid'.lastEvent.type = "drop" =>
        LET D == cardGrid.draggedElement
            T == cardGrid'.lastEvent.target
        IN  IF D # "" /\ T \in Cards /\ T # D
            THEN /\ cardGrid'.cards[PlaceOf(cardGrid.cards, T)] = D
                 /\ SelectSeq(cardGrid'.cards, LAMBDA card : card # D)
                        = SelectSeq(cardGrid.cards, LAMBDA card : card # D)
                 /\ Len(cardGrid'.cards) = CardCount
                 /\ {cardGrid'.cards[i] : i \in 1..CardCount} = Cards
                 /\ cardGrid'.storage = {cardGrid'.cards}
            ELSE /\ (D = "" \/ T = D) =>
                    /\ cardGrid'.cards = cardGrid.cards
                    /\ cardGrid'.storage = cardGrid.storage
    ]_vars

\* the first card was dropped on the third (it went after it), then the last
\* card on the one standing first (it went before it), and the order was stored
Wit_C30_DroppedForwardThenBack ==
    /\ cardGrid.lastEvent = [type |-> "drop", target |-> DEFAULT_ORDER[2]]
    /\ cardGrid.draggedElement = DEFAULT_ORDER[4]
    /\ cardGrid.cards
        = <<DEFAULT_ORDER[4], DEFAULT_ORDER[2], DEFAULT_ORDER[3], DEFAULT_ORDER[1]>>
    /\ cardGrid.storage = {cardGrid.cards}

====
